---- MODULE Spec2Model ----
(***************************************************************************)
(* Verification model of the IDE-Arena log dashboard:                      *)
(*   src/app/api/sweagent/logs/route.ts  (trajectory parser, extractors)   *)
(*   src/app/page.tsx                    (filename resolvers, aggregates)  *)
(*                                                                         *)
(* Text is modelled as a sequence of tokens.  A token is a TLA+ string     *)
(* that stands for that literal piece of text: a phrase the code searches  *)
(* for, a digit, a word, a punctuation sign, one blank.  A line is a       *)
(* sequence of tokens, a content is a sequence of lines (the result of     *)
(* content.split("\n")).  String functions of the code (includes, split,   *)
(* trim, match) are operators over token sequences.                        *)
(***************************************************************************)
EXTENDS Integers, Sequences, FiniteSets, TLC

VARIABLES
    parser,      \* parseLogFile: the trajectory under construction and the loop's locals
    nLines,      \* parseLogFile: number of lines consumed so far (loop index i)
    rawLine,     \* parseLogFile: the line consumed by the last loop iteration (lines[i])
    seen,        \* history: what the input says (iteration numbers of the lines consumed,
                 \* the test outcome that a content serializes)
    pc,          \* control position of the operation under analysis
    content,     \* text of the log file: its lines
    trajectory,  \* the record returned for content (GET /api/sweagent/logs/[filename])
    filename,    \* input of the filename resolvers
    resolved,    \* results of the filename resolvers
    calls,       \* concurrent parse invocations: per-call state
    buffers,     \* storage cells holding each invocation's toolResultBuffer
    logsDir,     \* storage: the entries of the logs directory
    request,     \* a route handler in flight: its position and locals
    response,    \* the response the handler returned
    aggregate,   \* computeModelPassRates in flight: fetches, results, counts
    page,        \* the page's trajectory cache, expanded files and fetches in flight
    students     \* the student collection of the course-registration repository

vars ==
    <<parser, nLines, rawLine, seen, pc, content, trajectory, filename, resolved, calls, buffers,
      logsDir, request, response, aggregate, page, students>>

(***************************************************************************)
(* Bounds of the model.                                                    *)
(***************************************************************************)
MaxLines == 4

(***************************************************************************)
(* Token-level string functions.                                           *)
(***************************************************************************)
Digits == {"0", "1", "2", "3"}
Blanks == {" "}
\* \w tokens: digits and words
Words == {"True", "False", "true", "edit", "x", "y", "ERROR", "error"}
WordChars == Digits \cup Words

DigitVal(d) == CASE d = "0" -> 0 [] d = "1" -> 1 [] d = "2" -> 2 [] d = "3" -> 3

\* the element of a one-element set: The({F(v) : v \in {e}}) evaluates e once and
\* hands its value to F
The(S) == CHOOSE x \in S : TRUE

Max(a, b) == IF a >= b THEN a ELSE b
Min(a, b) == IF a <= b THEN a ELSE b

\* s.slice(k) with k a 1-based position
From(s, k) == IF k > Len(s) THEN <<>> ELSE SubSeq(s, k, Len(s))

\* String.prototype.trim
RECURSIVE TrimLeft(_)
TrimLeft(s) == IF s # <<>> /\ Head(s) \in Blanks THEN TrimLeft(Tail(s)) ELSE s
RECURSIVE TrimRight(_)
TrimRight(s) ==
    IF s # <<>> /\ s[Len(s)] \in Blanks THEN TrimRight(SubSeq(s, 1, Len(s) - 1)) ELSE s
Trim(s) == TrimRight(TrimLeft(s))

\* s.indexOf(sub) for a non-empty token sequence sub: 1-based position, 0 when absent
IndexOf(s, sub) ==
    LET hits == {k \in 1..(Len(s) - Len(sub) + 1) : SubSeq(s, k, k + Len(sub) - 1) = sub}
    IN IF hits = {} THEN 0 ELSE CHOOSE k \in hits : \A j \in hits : k <= j

\* s.includes(sub)
Includes(s, sub) == IndexOf(s, sub) # 0

\* s.split(sub): the parts of s between the occurrences of sub
RECURSIVE Split(_, _)
Split(s, sub) ==
    LET k == IndexOf(s, sub)
    IN IF k = 0 THEN <<s>>
       ELSE <<SubSeq(s, 1, k - 1)>> \o Split(From(s, k + Len(sub)), sub)

\* parts[1] of a split: the second part, or undefined
Undefined == <<"undefined">>
Second(parts) == IF Len(parts) >= 2 THEN parts[2] ELSE Undefined

\* x?.trim(): undefined stays undefined
OptTrim(x) == IF x = Undefined THEN Undefined ELSE Trim(x)
\* truthiness of an optional string
Truthy(x) == x # Undefined /\ x # <<>>

\* end position of the maximal run of tokens of class cls starting at k (k-1 when empty)
RECURSIVE RunEnd(_, _, _)
RunEnd(s, k, cls) == IF k <= Len(s) /\ s[k] \in cls THEN RunEnd(s, k + 1, cls) ELSE k - 1

\* parseInt(digits, 10)
RECURSIVE ParseInt(_)
ParseInt(ds) ==
    IF ds = <<>> THEN 0 ELSE 10 * ParseInt(SubSeq(ds, 1, Len(ds) - 1)) + DigitVal(ds[Len(ds)])

(***************************************************************************)
(* normalizeLine (route.ts:113-116).  The character class of the regular   *)
(* expression is written without the u flag, so it holds UTF-16 code       *)
(* units: the BMP glyph U+23F1, the variation selector U+FE0F and the      *)
(* surrogate halves of the astral glyphs.  One unit of the class followed  *)
(* by at least one blank is removed.                                       *)
(***************************************************************************)
GlyphUnits == {"u23F1", "uFE0F", "uD83D", "uDD0D"}

normalizeLine(line) ==
    IF Len(line) >= 2 /\ line[1] \in GlyphUnits /\ line[2] \in Blanks
    THEN Trim(From(line, RunEnd(line, 2, Blanks) + 1))
    ELSE Trim(line)

(***************************************************************************)
(* extractTimestamp (route.ts:659-673).  "DATE" stands for a YYYY-MM-DD    *)
(* text and "TIME" for an HH:MM:SS text.                                   *)
(***************************************************************************)
extractTimestamp(line) ==
    LET full == {k \in 1..Len(line) :
                    /\ line[k] = "DATE"
                    /\ k + 1 <= Len(line) /\ line[k + 1] \in Blanks
                    /\ RunEnd(line, k + 1, Blanks) + 1 <= Len(line)
                    /\ line[RunEnd(line, k + 1, Blanks) + 1] = "TIME"}
    IN IF full # {}
       THEN LET k == CHOOSE x \in full : \A y \in full : x <= y
            IN SubSeq(line, k, RunEnd(line, k + 1, Blanks) + 1)
       ELSE IF Includes(line, <<"TIME">>) THEN <<"TIME">> ELSE <<"N/A">>

\* the timestamp of a start step (route.ts:187-189)
startTimestamp(raw) == IF Includes(raw, <<"DATE">>) THEN <<"DATE">> ELSE extractTimestamp(raw)

(***************************************************************************)
(* Phrases the step reconstructor searches for (route.ts:186-333).         *)
(***************************************************************************)
H == "HARNESS: "
PStart == <<"Starting benchmark run">>
PIteration == <<H, "Iteration">>
PLLM == <<"making LLM call">>
PToolCall == <<H, "Tool call">>
PEditTarget == <<H, "Edit target:">>
PEditInstr == <<H, "Edit instructions:">>
PLineEdits == <<H, "Line edits count:">>
PSyntaxOk == <<H, "Python syntax validation passed">>
PSyntaxErr == <<H, "Python syntax error">>
PSyntaxErrIn == <<H, "Python syntax error", " in">>
PSyntaxAt == <<H, "SYNTAX ERROR at line">>
PApplied == <<H, "Changes applied:">>
PNotApplied == <<H, "Changes that would have been applied:">>
PAttempted == <<H, "Attempted changes:">>
PWriting == <<H, "Writing">>
PCharsTo == <<"characters to">>
PResult == <<"Tool 0 result success:">>

\* tokens whose upper-cased text contains ERROR
ErrorTokens == {"ERROR", "error", "Python syntax error", "SYNTAX ERROR at line"}

\* line.toUpperCase().includes("ERROR")
IncludesError(line) == \E k \in 1..Len(line) : line[k] \in ErrorTokens

\* first position where a token-level pattern matches, 0 when none
FirstOf(S) == IF S = {} THEN 0 ELSE CHOOSE k \in S : \A j \in S : k <= j

\* line.match(/Iteration (\d+)/): position of the match
IterationMatch(line) ==
    FirstOf({k \in 1..Len(line) :
                /\ line[k] = "Iteration"
                /\ k + 2 <= Len(line) /\ line[k + 1] = " " /\ line[k + 2] \in Digits})

\* the captured number, parseInt(match[1], 10)
IterationNumber(line) ==
    LET k == IterationMatch(line)
    IN ParseInt(SubSeq(line, k + 2, RunEnd(line, k + 2, Digits)))

\* line.match(/Tool call \d+: (\w+)/): the set of match positions
ToolCallHits(line) ==
    {k \in 1..Len(line) :
        /\ line[k] = "Tool call"
        /\ k + 2 <= Len(line) /\ line[k + 1] = " " /\ line[k + 2] \in Digits
        /\ LET e == RunEnd(line, k + 2, Digits)
           IN /\ e + 3 <= Len(line)
              /\ line[e + 1] = ":" /\ line[e + 2] = " " /\ line[e + 3] \in WordChars}

\* match[1] of the tool-call pattern
ToolName(line) ==
    LET k == FirstOf(ToolCallHits(line))
        e == RunEnd(line, k + 2, Digits)
    IN SubSeq(line, e + 3, RunEnd(line, e + 3, WordChars))

\* line.match(/HARNESS: Edit \d+:/): positions and end of the match
EditNHits(line) ==
    {k \in 1..Len(line) :
        /\ line[k] = H
        /\ k + 3 <= Len(line) /\ line[k + 1] = "Edit" /\ line[k + 2] = " "
        /\ line[k + 3] \in Digits
        /\ RunEnd(line, k + 3, Digits) + 1 <= Len(line)
        /\ line[RunEnd(line, k + 3, Digits) + 1] = ":"}

\* line.split(/HARNESS: Edit \d+:/)[1]
EditNSecond(line) ==
    LET k == FirstOf(EditNHits(line))
        rest == From(line, RunEnd(line, k + 3, Digits) + 2)
        nxt == FirstOf(EditNHits(rest))
    IN IF nxt = 0 THEN rest ELSE SubSeq(rest, 1, nxt - 1)

\* line.match(/Writing (\d+) characters to (.+)/)
WritingHits(line) ==
    {k \in 1..Len(line) :
        /\ line[k] = "Writing"
        /\ k + 2 <= Len(line) /\ line[k + 1] = " " /\ line[k + 2] \in Digits
        /\ LET e == RunEnd(line, k + 2, Digits)
           IN /\ e + 4 <= Len(line)
              /\ line[e + 1] = " " /\ line[e + 2] = "characters to" /\ line[e + 3] = " "}

\* line.match(/Tool 0 result success: (\w+)/)
ResultHits(line) ==
    {k \in 1..Len(line) :
        /\ line[k] = "Tool 0 result success:"
        /\ k + 2 <= Len(line) /\ line[k + 1] = " " /\ line[k + 2] \in WordChars}

\* match[1].toLowerCase() === "true"
ResultIsSuccess(line) ==
    LET k == FirstOf(ResultHits(line))
        w == SubSeq(line, k + 2, RunEnd(line, k + 2, WordChars))
    IN w \in {<<"True">>, <<"true">>}

\* JSON.parse(text): "{json}" stands for a well-formed JSON text
JsonParses(text) == text = <<"{json}">>
JsonOrRaw(text) == IF JsonParses(text) THEN <<"parsed">> \o text ELSE text

(***************************************************************************)
(* parseLogFile: the state of one invocation (route.ts:119-176).           *)
(* currentIteration: NoIteration stands for null.  currentStep is a JS     *)
(* reference to an element of trajectory.steps: here its 1-based position  *)
(* in steps, 0 for null.  A step's error is <<>> for null and <<line>>     *)
(* when set.                                                               *)
(***************************************************************************)
NoIteration == 0 - 1

NoDetails ==
    [editTarget |-> <<>>, editInstructions |-> <<>>, lineEditsCount |-> <<>>,
     edits |-> <<>>, syntaxValidation |-> <<>>, syntaxError |-> <<>>,
     syntaxErrorDetail |-> <<>>, changesApplied |-> <<>>, changesNotApplied |-> <<>>,
     attemptedChanges |-> <<>>, bytesWritten |-> <<>>, filePath |-> <<>>]

InitParser ==
    [steps |-> <<>>, totalIterations |-> 0, toolCalls |-> 0, errors |-> 0,
     modelName |-> <<"unknown">>, taskName |-> <<"unknown">>,
     currentIteration |-> NoIteration, currentStep |-> 0,
     collectingToolResult |-> FALSE, toolResultBuffer |-> <<>>, threw |-> FALSE]

\* the step pushed by a "Starting benchmark run" line (route.ts:191-197)
StartStep(raw) ==
    [type |-> "start", content |-> PStart, iteration |-> 0, success |-> "true",
     timestamp |-> startTimestamp(raw), toolCall |-> <<>>, error |-> <<>>,
     toolDetails |-> NoDetails, toolResult |-> <<>>]

\* the step created by a tool-call line (route.ts:222-232)
ToolStep(iter, name, raw) ==
    [type |-> "iteration", content |-> <<"Executing ">> \o name, iteration |-> iter,
     success |-> "null", timestamp |-> extractTimestamp(raw), toolCall |-> name,
     error |-> <<>>, toolDetails |-> NoDetails, toolResult |-> <<>>]

\* Faulty variant of the end of the chain: the result branch is tested before the
\* collection branch
ChainEndResultFirst(line, cur, collecting) ==
    IF Includes(line, PResult) /\ cur THEN "result"
    ELSE IF collecting /\ cur /\ line # <<>> THEN "collect"
    ELSE IF IncludesError(line) /\ cur THEN "error"
    ELSE "none"

\* Faulty variant of the end of the chain: the ERROR fallback is tested before the
\* collection branch
ChainEndErrorFirst(line, cur, collecting) ==
    IF IncludesError(line) /\ cur THEN "error"
    ELSE IF collecting /\ cur /\ line # <<>> THEN "collect"
    ELSE IF Includes(line, PResult) /\ cur THEN "result"
    ELSE "none"

\* the last three branches of the chain (route.ts:319-338)
ChainEnd(line, cur, collecting) ==
    IF collecting /\ cur /\ line # <<>> THEN "collect"
    ELSE IF Includes(line, PResult) /\ cur THEN "result"
    ELSE IF IncludesError(line) /\ cur THEN "error"
    ELSE "none"

\* Faulty variant of the chain: rules 3 and 4 are entered only when their regular
\* expression captures, so a malformed line falls through to the later branches
ChainCapturing(line, cur, iterating, collecting) ==
    IF Includes(line, PStart) THEN "start"
    ELSE IF Includes(line, <<"Dataset:">>) /\ Includes(line, <<"Agent:">>)
               /\ Includes(line, <<"Model:">>) THEN "dataset"
    ELSE IF Includes(line, PIteration) /\ Includes(line, PLLM)
               /\ IterationMatch(line) # 0 THEN "iteration"
    ELSE IF Includes(line, PToolCall) /\ iterating
               /\ ToolCallHits(line) # {} THEN "toolCall"
    ELSE IF cur /\ Includes(line, PEditTarget) THEN "editTarget"
    ELSE IF cur /\ Includes(line, PEditInstr) THEN "editInstructions"
    ELSE IF cur /\ Includes(line, PLineEdits) THEN "lineEditsCount"
    ELSE IF cur /\ EditNHits(line) # {} THEN "editN"
    ELSE IF cur /\ Includes(line, PSyntaxOk) THEN "syntaxPassed"
    ELSE IF cur /\ Includes(line, PSyntaxErr) THEN "syntaxError"
    ELSE IF cur /\ Includes(line, PSyntaxAt) THEN "syntaxErrorDetail"
    ELSE IF cur /\ Includes(line, PApplied) THEN "changesApplied"
    ELSE IF cur /\ Includes(line, PNotApplied) THEN "changesNotApplied"
    ELSE IF cur /\ Includes(line, PAttempted) THEN "attemptedChanges"
    ELSE IF cur /\ Includes(line, PWriting) /\ Includes(line, PCharsTo) THEN "writing"
    ELSE ChainEnd(line, cur, collecting)

\* the branch of the if/else-if chain that a line takes (route.ts:186-333), given
\* the three conditions on the loop's locals that the chain reads: currentStep is
\* set, currentIteration !== null, collectingToolResult
Chain(line, cur, iterating, collecting) ==
    IF Includes(line, PStart) THEN "start"
    ELSE IF Includes(line, <<"Dataset:">>) /\ Includes(line, <<"Agent:">>)
               /\ Includes(line, <<"Model:">>) THEN "dataset"
    ELSE IF Includes(line, PIteration) /\ Includes(line, PLLM) THEN "iteration"
    ELSE IF Includes(line, PToolCall) /\ iterating THEN "toolCall"
    ELSE IF cur /\ Includes(line, PEditTarget) THEN "editTarget"
    ELSE IF cur /\ Includes(line, PEditInstr) THEN "editInstructions"
    ELSE IF cur /\ Includes(line, PLineEdits) THEN "lineEditsCount"
    ELSE IF cur /\ EditNHits(line) # {} THEN "editN"
    ELSE IF cur /\ Includes(line, PSyntaxOk) THEN "syntaxPassed"
    ELSE IF cur /\ Includes(line, PSyntaxErr) THEN "syntaxError"
    ELSE IF cur /\ Includes(line, PSyntaxAt) THEN "syntaxErrorDetail"
    ELSE IF cur /\ Includes(line, PApplied) THEN "changesApplied"
    ELSE IF cur /\ Includes(line, PNotApplied) THEN "changesNotApplied"
    ELSE IF cur /\ Includes(line, PAttempted) THEN "attemptedChanges"
    ELSE IF cur /\ Includes(line, PWriting) /\ Includes(line, PCharsTo) THEN "writing"
    ELSE ChainEnd(line, cur, collecting)

RuleOf(p, line) ==
    Chain(line, p.currentStep # 0, p.currentIteration # NoIteration, p.collectingToolResult)

\* currentStep.<field> = value: an update through the reference
SetStep(p, field, value) ==
    [p EXCEPT !.steps[p.currentStep] = [@ EXCEPT ![field] = value]]
SetDetail(p, key, value) ==
    [p EXCEPT !.steps[p.currentStep].toolDetails = [@ EXCEPT ![key] = value]]

\* currentStep.toolDetails.<key> = line.split(phrase)[1]?.trim(), when truthy
AttachAfter(p, line, phrase, key) ==
    LET v == OptTrim(Second(Split(line, phrase)))
    IN IF Truthy(v) THEN SetDetail(p, key, v) ELSE p

\* the same for the JSON-or-raw payloads (route.ts:276-311)
AttachJson(p, line, phrase, key) ==
    LET v == OptTrim(Second(Split(line, phrase)))
    IN IF Truthy(v) THEN SetDetail(p, key, JsonOrRaw(v)) ELSE p

\* rule 1 (route.ts:186-197)
OnStart(p, raw) == [p EXCEPT !.steps = Append(@, StartStep(raw))]

\* rule 2 (route.ts:198-206): the comma-separated parts, in order
RECURSIVE OnDatasetParts(_, _)
OnDatasetParts(p, parts) ==
    IF parts = <<>> \/ p.threw THEN p
    ELSE LET part == Head(parts)
             m == Second(Split(part, <<"Model:">>))
             t == Second(Split(part, <<"Task:">>))
             q == IF Includes(part, <<"Model:">>)
                  THEN IF m = Undefined THEN [p EXCEPT !.threw = TRUE]
                       ELSE [p EXCEPT !.modelName = Trim(m)]
                  ELSE IF Includes(part, <<"Task:">>)
                  THEN IF t = Undefined THEN [p EXCEPT !.threw = TRUE]
                       ELSE [p EXCEPT !.taskName = Trim(t)]
                  ELSE p
         IN OnDatasetParts(q, Tail(parts))
OnDataset(p, line) == OnDatasetParts(p, Split(line, <<",">>))

\* Faulty variants of rule 3: the running maximum replaced by the last number, and
\* by a count of the iteration lines
OnIterationLast(p, line) ==
    IF IterationMatch(line) = 0 THEN p
    ELSE [p EXCEPT !.currentIteration = IterationNumber(line),
                   !.totalIterations = IterationNumber(line)]
OnIterationCount(p, line) ==
    IF IterationMatch(line) = 0 THEN p
    ELSE [p EXCEPT !.currentIteration = IterationNumber(line),
                   !.totalIterations = @ + 1]

\* Faulty variant of rule 3: the number is read without the test of the match
OnIterationUnguarded(p, line) ==
    IF IterationMatch(line) = 0 THEN [p EXCEPT !.threw = TRUE]
    ELSE [p EXCEPT !.currentIteration = IterationNumber(line),
                   !.totalIterations = Max(@, IterationNumber(line))]

\* rule 3 (route.ts:207-215)
OnIteration(p, line) ==
    IF IterationMatch(line) = 0 THEN p
    ELSE [p EXCEPT !.currentIteration = IterationNumber(line),
                   !.totalIterations = Max(@, IterationNumber(line))]

\* Faulty variant of rule 4: the step is appended but the call is not counted
OnToolCallUncounted(p, line, raw) ==
    IF ToolCallHits(line) = {} THEN p
    ELSE [p EXCEPT !.steps = Append(@, ToolStep(p.currentIteration, ToolName(line), raw)),
                   !.currentStep = Len(p.steps) + 1,
                   !.collectingToolResult = FALSE,
                   !.toolResultBuffer = <<>>]

\* Faulty variant of rule 4: the collection of the previous step goes on
OnToolCallStillCollecting(p, line, raw) ==
    IF ToolCallHits(line) = {} THEN p
    ELSE [p EXCEPT !.toolCalls = @ + 1,
                   !.steps = Append(@, ToolStep(p.currentIteration, ToolName(line), raw)),
                   !.currentStep = Len(p.steps) + 1]

\* Faulty variant of rule 4: the step carries totalIterations
OnToolCallOfTotal(p, line, raw) ==
    IF ToolCallHits(line) = {} THEN p
    ELSE [p EXCEPT !.toolCalls = @ + 1,
                   !.steps = Append(@, ToolStep(p.totalIterations, ToolName(line), raw)),
                   !.currentStep = Len(p.steps) + 1,
                   !.collectingToolResult = FALSE,
                   !.toolResultBuffer = <<>>]

\* rule 4 (route.ts:216-236)
OnToolCall(p, line, raw) ==
    IF ToolCallHits(line) = {} THEN p
    ELSE [p EXCEPT !.toolCalls = @ + 1,
                   !.steps = Append(@, ToolStep(p.currentIteration, ToolName(line), raw)),
                   !.currentStep = Len(p.steps) + 1,
                   !.collectingToolResult = FALSE,
                   !.toolResultBuffer = <<>>]

\* rule 5, "HARNESS: Edit N:" (route.ts:255-261)
OnEditN(p, line) ==
    LET v == Trim(EditNSecond(line))
    IN IF v # <<>>
       THEN SetDetail(p, "edits", Append(p.steps[p.currentStep].toolDetails.edits, v))
       ELSE p

\* rule 5, "HARNESS: Python syntax error" (route.ts:265-269)
OnSyntaxError(p, line) ==
    LET msg == OptTrim(Second(Split(line, PSyntaxErrIn)))
        q == SetDetail(p, "syntaxValidation", <<"failed">>)
    IN SetDetail(q, "syntaxError",
                 IF Truthy(msg) THEN msg ELSE <<"Syntax error detected">>)

\* rule 5, "HARNESS: Writing N characters to PATH" (route.ts:312-318)
OnWriting(p, line) ==
    LET k == FirstOf(WritingHits(line))
        e == RunEnd(line, k + 2, Digits)
    IN IF k = 0 THEN p
       ELSE SetDetail(SetDetail(p, "bytesWritten", SubSeq(line, k + 2, e)),
                      "filePath", From(line, e + 4))

\* Faulty variant of the collection branch: toolResult holds the last line only
OnCollectLast(p, line) ==
    LET buf == Append(p.toolResultBuffer, line)
    IN [SetStep(p, "toolResult", <<line>>) EXCEPT !.toolResultBuffer = buf]

\* Faulty variant of the collection branch: a collected ERROR line is counted
OnCollectCounting(p, line) ==
    [SetStep([p EXCEPT !.toolResultBuffer = Append(@, line)],
             "toolResult", Append(p.toolResultBuffer, line))
        EXCEPT !.errors = IF IncludesError(line) THEN @ + 1 ELSE @]

\* the result-collection branch (route.ts:319-321)
OnCollect(p, line) ==
    LET buf == Append(p.toolResultBuffer, line)
    IN [SetStep(p, "toolResult", buf) EXCEPT !.toolResultBuffer = buf]

\* Faulty variant of the result branch: the collection is not started
OnResultNotCollecting(p, line) ==
    IF ResultHits(line) = {} THEN p
    ELSE [SetStep(p, "success", IF ResultIsSuccess(line) THEN "true" ELSE "false")
             EXCEPT !.errors = IF ResultIsSuccess(line) THEN @ ELSE @ + 1]

\* Faulty variant of the result branch: the ERROR check is not chained with else
\* and runs for the same line
OnResultAlsoError(p, line) ==
    LET ok == ResultHits(line) = {} \/ ResultIsSuccess(line)
        q == IF ResultHits(line) = {} THEN p
             ELSE [SetStep(p, "success", IF ok THEN "true" ELSE "false")
                      EXCEPT !.errors = IF ok THEN @ ELSE @ + 1,
                             !.collectingToolResult = TRUE,
                             !.toolResultBuffer = <<>>]
    IN IF IncludesError(line) /\ q.steps[q.currentStep].error = <<>>
       THEN [SetStep(q, "error", <<line>>) EXCEPT !.errors = @ + 1]
       ELSE q

\* the "Tool 0 result success:" branch (route.ts:322-332)
OnResult(p, line) ==
    IF ResultHits(line) = {} THEN p
    ELSE LET ok == ResultIsSuccess(line)
         IN [SetStep(p, "success", IF ok THEN "true" ELSE "false")
                EXCEPT !.errors = IF ok THEN @ ELSE @ + 1,
                       !.collectingToolResult = TRUE,
                       !.toolResultBuffer = <<>>]

\* Faulty variant of the fallback: every ERROR line replaces the error and counts
OnErrorOverwrites(p, line) ==
    [SetStep(p, "error", <<line>>) EXCEPT !.errors = @ + 1]

\* the ERROR fallback branch (route.ts:333-338)
OnError(p, line) ==
    IF p.steps[p.currentStep].error = <<>>
    THEN [SetStep(p, "error", <<line>>) EXCEPT !.errors = @ + 1]
    ELSE p

\* Faulty variant of the chain: the ERROR test is an `if` of its own after the
\* result branch, not an `else if`
DispatchFallsThrough(p, line, raw, rule) ==
    CASE rule = "start" -> OnStart(p, raw)
      [] rule = "dataset" -> OnDataset(p, line)
      [] rule = "iteration" -> OnIteration(p, line)
      [] rule = "toolCall" -> OnToolCall(p, line, raw)
      [] rule = "collect" -> OnCollect(p, line)
      [] rule = "result" -> IF IncludesError(line) THEN OnError(OnResult(p, line), line)
                            ELSE OnResult(p, line)
      [] rule = "error" -> OnError(p, line)
      [] OTHER -> p

\* the handler of each branch of the chain
Dispatch(p, line, raw, rule) ==
    CASE rule = "start" -> OnStart(p, raw)
      [] rule = "dataset" -> OnDataset(p, line)
      [] rule = "iteration" -> OnIteration(p, line)
      [] rule = "toolCall" -> OnToolCall(p, line, raw)
      [] rule = "editTarget" -> AttachAfter(p, line, PEditTarget, "editTarget")
      [] rule = "editInstructions" -> AttachAfter(p, line, PEditInstr, "editInstructions")
      [] rule = "lineEditsCount" -> AttachAfter(p, line, PLineEdits, "lineEditsCount")
      [] rule = "editN" -> OnEditN(p, line)
      [] rule = "syntaxPassed" -> SetDetail(p, "syntaxValidation", <<"passed">>)
      [] rule = "syntaxError" -> OnSyntaxError(p, line)
      [] rule = "syntaxErrorDetail" -> AttachAfter(p, line, PSyntaxAt, "syntaxErrorDetail")
      [] rule = "changesApplied" -> AttachJson(p, line, PApplied, "changesApplied")
      [] rule = "changesNotApplied" -> AttachJson(p, line, PNotApplied, "changesNotApplied")
      [] rule = "attemptedChanges" -> AttachJson(p, line, PAttempted, "attemptedChanges")
      [] rule = "writing" -> OnWriting(p, line)
      [] rule = "collect" -> OnCollect(p, line)
      [] rule = "result" -> OnResult(p, line)
      [] rule = "error" -> OnError(p, line)
      [] OTHER -> p

\* one iteration of the loop over the lines (route.ts:178-339); rawLine, line and
\* the branch are each computed once, as values
ProcessNormalized(p, raw, line) ==
    The({Dispatch(p, line, raw, rule) : rule \in {RuleOf(p, line)}})
\* Faulty variant of the loop body: an empty line ends the iteration block
ProcessRawBlankResets(p, raw) ==
    IF raw = <<>> THEN [p EXCEPT !.currentIteration = NoIteration]
    ELSE The({ProcessNormalized(p, raw, line) : line \in {normalizeLine(raw)}})
ProcessRaw(p, raw) ==
    IF raw = <<>> THEN p
    ELSE The({ProcessNormalized(p, raw, line) : line \in {normalizeLine(raw)}})
ProcessLine(p, l) == The({ProcessRaw(p, raw) : raw \in {Trim(l)}})

\* the whole loop over the lines
RECURSIVE ParseLines(_, _)
ParseLines(p, lines) ==
    IF lines = <<>> \/ p.threw THEN p
    ELSE The({ParseLines(q, Tail(lines)) : q \in {ProcessLine(p, Head(lines))}})

(***************************************************************************)
(* Specification Spec: the loop of parseLogFile over the lines of one      *)
(* content.  Each step consumes the next line, drawn from LineSet; there   *)
(* is one action per branch of the loop body.                              *)
(***************************************************************************)
LBlank == <<" ">>
LStart == <<"DATE", " ", "TIME", " ", "Starting benchmark run">>
LStartIter == <<"Starting benchmark run", " ", H, "Iteration", " ", "3", " ", "making LLM call">>
LDataset ==
    <<"Dataset:", "x", ",", "Agent:", "x", ",", "Model:", " ", "y", ",", "Task:", " ", "x">>
LIter1 == <<"TIME", " ", H, "Iteration", " ", "1", " ", "making LLM call">>
LIter2 == <<H, "Iteration", " ", "2", " ", "making LLM call">>
LIterBad == <<H, "Iteration", " ", "making LLM call">>
LIterTwice == <<"Iteration", " ", "3", " ", H, "Iteration", " ", "1", " ", "making LLM call">>
LIterLate == <<H, "Iteration", " ", "making LLM call", " ", "Iteration", " ", "2">>
LTool == <<"TIME", " ", H, "Tool call", " ", "1", ":", " ", "edit">>
LToolBad == <<H, "Tool call", " ", "1", ":">>
LEditTarget == <<H, "Edit target:", " ", "x">>
LEditInstr == <<H, "Edit instructions:", " ", "x">>
LLineEdits == <<H, "Line edits count:", " ", "1">>
LEditN == <<H, "Edit", " ", "1", ":", " ", "x">>
LSyntaxOk == <<H, "Python syntax validation passed">>
LSyntaxErr == <<H, "Python syntax error", " in", " ", "x">>
LSyntaxAt == <<H, "SYNTAX ERROR at line", " ", "1">>
LApplied == <<H, "Changes applied:", " ", "{json}">>
LNotApplied == <<H, "Changes that would have been applied:", " ", "x">>
LAttempted == <<H, "Attempted changes:", " ", "{json}">>
LWriting == <<H, "Writing", " ", "1", "2", " ", "characters to", " ", "x">>
LWritingBad == <<H, "Writing", " ", "characters to", " ", "x">>
LResultTrue == <<"Tool 0 result success:", " ", "True">>
LResultFalse == <<"u23F1", " ", "Tool 0 result success:", " ", "False">>
LResultTrueFalse ==
    <<"Tool 0 result success:", " ", "True", " ", "Tool 0 result success:", " ", "False">>
LResultFalseError == <<"ERROR", " ", "Tool 0 result success:", " ", "False">>
LResultBad == <<"Tool 0 result success:">>
LEditTargetResult == <<H, "Edit target:", " ", "Tool 0 result success:", " ", "False">>
LError == <<"ERROR", " ", "x">>
LErrorLower == <<"u23F1", " ", "error">>
LPlain == <<"x">>

Lines ==
    <<LBlank, LStart, LStartIter, LDataset, LIter1, LIter2, LIterBad, LIterTwice, LIterLate,
      LTool, LToolBad,
      LEditTarget, LEditInstr, LLineEdits, LEditN, LSyntaxOk, LSyntaxErr, LSyntaxAt,
      LApplied, LNotApplied, LAttempted, LWriting, LWritingBad, LResultTrue, LResultFalse,
      LResultFalseError, LResultTrueFalse,
      LResultBad, LEditTargetResult, LError, LErrorLower, LPlain>>
LineSet == {Lines[n] : n \in DOMAIN Lines}

\* A line as the iteration pattern describes it: it contains 'HARNESS: Iteration <n>'
\* and 'making LLM call', whatever branch of the chain the line takes; n is its number
PatternHits(line) ==
    {k \in 1..Len(line) :
        /\ k + 3 <= Len(line)
        /\ SubSeq(line, k, k + 1) = PIteration
        /\ line[k + 2] = " " /\ line[k + 3] \in Digits}
MatchesIterationPattern(line) == PatternHits(line) # {} /\ Includes(line, PLLM)
PatternNumber(line) ==
    LET k == FirstOf(PatternHits(line))
    IN ParseInt(SubSeq(line, k + 3, RunEnd(line, k + 3, Digits)))

\* A line matched by rule 1 or rule 2 of the reconstructor
MatchesRule1or2(line) ==
    \/ Includes(line, PStart)
    \/ Includes(line, <<"Dataset:">>) /\ Includes(line, <<"Agent:">>)
          /\ Includes(line, <<"Model:">>)

\* the number after the first 'Iteration ' of the line that a number follows
FirstIterationNumber(line) ==
    LET k == FirstOf({j \in 1..Len(line) :
                        /\ j + 2 <= Len(line) /\ line[j] = "Iteration"
                        /\ line[j + 1] = " " /\ line[j + 2] \in Digits})
    IN ParseInt(SubSeq(line, k + 2, RunEnd(line, k + 2, Digits)))

\* a line with 'HARNESS: Iteration' and 'making LLM call' that rules 1 and 2 do not
\* match and that holds 'Iteration <n>' somewhere
Handled(line) ==
    /\ Includes(line, PIteration) /\ Includes(line, PLLM) /\ ~MatchesRule1or2(line)
    /\ \E j \in 1..Len(line) :
          j + 2 <= Len(line) /\ line[j] = "Iteration" /\ line[j + 1] = " "
             /\ line[j + 2] \in Digits

\* the history after one more line: the numbers of the lines that match the
\* iteration pattern, the first numbers of the lines that are handled, and the
\* number of the latest handled line
Remember(h, line) ==
    [pattern |-> IF MatchesIterationPattern(line) THEN h.pattern \cup {PatternNumber(line)}
                 ELSE h.pattern,
     handled |-> IF Handled(line) THEN h.handled \cup {FirstIterationNumber(line)}
                 ELSE h.handled,
     last |-> IF Handled(line) THEN FirstIterationNumber(line) ELSE h.last]
NoHistory == [pattern |-> {}, handled |-> {}, last |-> NoIteration]

\* values the variables of the other specifications keep under this one
NoTrajectory == [served |-> FALSE]
NoResolved == [shown |-> FALSE, keyed |-> FALSE]
IdleParser == parser = InitParser /\ nLines = 0 /\ rawLine = <<>> /\ seen = NoHistory
IdleExtract == content = <<>> /\ trajectory = NoTrajectory
IdleResolver == filename = <<>> /\ resolved = NoResolved
IdleCalls == calls = <<>> /\ buffers = <<>>
NoRequest == [at |-> "none"]
NoResponse == [status |-> 0]
NoAggregate == [at |-> "none"]
IdleServer == logsDir = <<>> /\ request = NoRequest /\ response = NoResponse
NoPage == [at |-> "none"]
IdleClient == aggregate = NoAggregate /\ page = NoPage
IdleStudents == students = <<>>

parserVars == <<parser, nLines, rawLine, seen>>
extractVars == <<content, trajectory>>
resolverVars == <<filename, resolved>>
callVars == <<calls, buffers>>
serverVars == <<logsDir, request, response>>
clientVars == <<aggregate, page>>
studentVars == <<students>>

Init ==
    /\ IdleParser /\ pc = "lines" /\ IdleExtract /\ IdleResolver /\ IdleCalls
    /\ IdleServer /\ IdleClient /\ IdleStudents

\* the three conditions the chain reads, as a number 1..8
Conditions(cur, iterating, collecting) ==
    1 + (IF cur THEN 4 ELSE 0) + (IF iterating THEN 2 ELSE 0) + (IF collecting THEN 1 ELSE 0)

\* Chain tabulated over Lines ("blank" for a line skipped at route.ts:180)
BranchTable ==
    [n \in DOMAIN Lines |->
        [c \in 1..8 |->
            IF Trim(Lines[n]) = <<>> THEN "blank"
            ELSE Chain(normalizeLine(Trim(Lines[n])), c > 4, ((c - 1) % 4) >= 2,
                       (c - 1) % 2 = 1)]]

\* the branch taken by line Lines[n] in the current state
Branch(n) ==
    BranchTable[n][Conditions(parser.currentStep # 0, parser.currentIteration # NoIteration,
                              parser.collectingToolResult)]

\* lines[i] = l is consumed by the loop body
Consume(l) ==
    /\ nLines' = nLines + 1
    /\ rawLine' = l
    /\ parser' = ProcessLine(parser, l)
    /\ seen' = Remember(seen, Trim(l))
    /\ UNCHANGED <<pc, extractVars, resolverVars, callVars,
                 serverVars, clientVars, studentVars>>

\* the loop has a next line (i < lines.length)
More == pc = "lines" /\ nLines < MaxLines

BlankLine ==
    More /\ \E n \in DOMAIN Lines : Branch(n) = "blank" /\ Consume(Lines[n])
StartLine ==
    More /\ \E n \in DOMAIN Lines : Branch(n) = "start" /\ Consume(Lines[n])
DatasetLine ==
    More /\ \E n \in DOMAIN Lines : Branch(n) = "dataset" /\ Consume(Lines[n])
IterationLine ==
    More /\ \E n \in DOMAIN Lines : Branch(n) = "iteration" /\ Consume(Lines[n])
ToolCallLine ==
    More /\ \E n \in DOMAIN Lines : Branch(n) = "toolCall" /\ Consume(Lines[n])
EditTargetLine ==
    More /\ \E n \in DOMAIN Lines : Branch(n) = "editTarget" /\ Consume(Lines[n])
EditInstructionsLine ==
    More /\ \E n \in DOMAIN Lines : Branch(n) = "editInstructions" /\ Consume(Lines[n])
LineEditsCountLine ==
    More /\ \E n \in DOMAIN Lines : Branch(n) = "lineEditsCount" /\ Consume(Lines[n])
EditNLine ==
    More /\ \E n \in DOMAIN Lines : Branch(n) = "editN" /\ Consume(Lines[n])
SyntaxPassedLine ==
    More /\ \E n \in DOMAIN Lines : Branch(n) = "syntaxPassed" /\ Consume(Lines[n])
SyntaxErrorLine ==
    More /\ \E n \in DOMAIN Lines : Branch(n) = "syntaxError" /\ Consume(Lines[n])
SyntaxErrorDetailLine ==
    More /\ \E n \in DOMAIN Lines : Branch(n) = "syntaxErrorDetail" /\ Consume(Lines[n])
ChangesAppliedLine ==
    More /\ \E n \in DOMAIN Lines : Branch(n) = "changesApplied" /\ Consume(Lines[n])
ChangesNotAppliedLine ==
    More /\ \E n \in DOMAIN Lines : Branch(n) = "changesNotApplied" /\ Consume(Lines[n])
AttemptedChangesLine ==
    More /\ \E n \in DOMAIN Lines : Branch(n) = "attemptedChanges" /\ Consume(Lines[n])
WritingLine ==
    More /\ \E n \in DOMAIN Lines : Branch(n) = "writing" /\ Consume(Lines[n])
CollectLine ==
    More /\ \E n \in DOMAIN Lines : Branch(n) = "collect" /\ Consume(Lines[n])
ResultLine ==
    More /\ \E n \in DOMAIN Lines : Branch(n) = "result" /\ Consume(Lines[n])
ErrorLine ==
    More /\ \E n \in DOMAIN Lines : Branch(n) = "error" /\ Consume(Lines[n])
OtherLine ==
    More /\ \E n \in DOMAIN Lines : Branch(n) = "none" /\ Consume(Lines[n])

Next ==
    \/ BlankLine \/ StartLine \/ DatasetLine \/ IterationLine \/ ToolCallLine
    \/ EditTargetLine \/ EditInstructionsLine \/ LineEditsCountLine \/ EditNLine
    \/ SyntaxPassedLine \/ SyntaxErrorLine \/ SyntaxErrorDetailLine
    \/ ChangesAppliedLine \/ ChangesNotAppliedLine \/ AttemptedChangesLine
    \/ WritingLine \/ CollectLine \/ ResultLine \/ ErrorLine \/ OtherLine

Spec == Init /\ [][Next]_vars

(***************************************************************************)
(* Properties of the step reconstructor, checked under Spec.               *)
(***************************************************************************)
MaxOf(S) == IF S = {} THEN 0 ELSE CHOOSE m \in S : \A x \in S : x <= m

\* the line just consumed, trimmed and normalized, in a step of the loop
LineNow == normalizeLine(Trim(rawLine'))
\* a step of the loop that consumes a line
LineStep == nLines' = nLines + 1

\* a line containing 'Tool 0 result success: False'
HasResultFalse(line) == Includes(line, <<"Tool 0 result success:", " ", "False">>)

\* the error fields of the steps present before the line stay as they were
ErrorFieldsKept ==
    \A k \in DOMAIN parser.steps : parser'.steps[k].error = parser.steps[k].error

\* rules 1-5 of the reconstructor, by the text of the line and the state before it
MatchesRule1to5(p, line) ==
    \/ MatchesRule1or2(line)
    \/ Includes(line, PIteration) /\ Includes(line, PLLM)
    \/ Includes(line, PToolCall) /\ p.currentIteration # NoIteration
    \/ /\ p.currentStep # 0
       /\ \/ \E ph \in {PEditTarget, PEditInstr, PLineEdits, PSyntaxOk, PSyntaxErr, PSyntaxAt,
                         PApplied, PNotApplied, PAttempted} : Includes(line, ph)
          \/ EditNHits(line) # {}
          \/ Includes(line, PWriting) /\ Includes(line, PCharsTo)

C3_MaxOverPattern ==
    /\ [](parser.totalIterations = MaxOf(seen.pattern))
    /\ [][parser'.totalIterations >= parser.totalIterations]_vars

\* C3 amended: totalIterations is the maximum, over the consumed lines that hold
\* 'HARNESS: Iteration', 'making LLM call' and some 'Iteration <n>' and are not
\* matched by rule 1 or rule 2, of the first such n of the line (0 when there is
\* no such line), and it never decreases.
C3_MaxOverHandled ==
    /\ [](parser.totalIterations = MaxOf(seen.handled))
    /\ [][parser'.totalIterations >= parser.totalIterations]_vars

\* C3 witness: a smaller iteration number was consumed after a larger one
C3_Witness ==
    /\ seen.handled = {1, 2}
    /\ parser.currentIteration = 1
    /\ parser.totalIterations = 2

\* C4: totalIterations is at least the iteration of every step, the start step
\* included.
C4_TotalAtLeastSteps ==
    \A k \in DOMAIN parser.steps : parser.totalIterations >= parser.steps[k].iteration

\* C4 witness: a start step and a step of iteration 2, with the current iteration
\* back at 1
C4_Witness ==
    /\ \E k \in DOMAIN parser.steps : parser.steps[k].type = "start"
    /\ \E k \in DOMAIN parser.steps : parser.steps[k].iteration = 2
    /\ parser.currentIteration = 1

\* C8 as stated: once a later step has been appended, no earlier step changes; only
\* the last step of steps can be changed by a line.
C8_StepFreezing ==
    [][\A k \in DOMAIN parser.steps :
          k < Len(parser.steps) => parser'.steps[k] = parser.steps[k]]_vars

(***************************************************************************)
(* The extractors that read the whole content (route.ts:341-357).  The     *)
(* content string is the lines joined by the newline token; \s of a        *)
(* regular expression is a blank or the newline.                           *)
(***************************************************************************)
NL == "\n"
White == Blanks \cup {NL}

\* the inverse of content.split("\n")
RECURSIVE Joined(_)
Joined(lines) ==
    IF lines = <<>> THEN <<>>
    ELSE IF Len(lines) = 1 THEN lines[1]
    ELSE lines[1] \o <<NL>> \o Joined(Tail(lines))

\* the i flag: a word token and its lower-case form
Lower(t) ==
    CASE t \in {"Total", "TOTAL"} -> "total"
      [] t \in {"Passed", "PASSED"} -> "passed"
      [] t = "Tests" -> "tests"
      [] OTHER -> t

At(s, k) == IF k \in 1..Len(s) THEN s[k] ELSE "<end>"
NoMatch == [found |-> FALSE, passed |-> 0, total |-> 0, end |-> 0]

\* /Total\s+tests:\s*(\d+)\/(\d+)\s*passed/i matched at position k of s
TotalAt(s, k) ==
    LET a == RunEnd(s, k + 1, White)
        b == RunEnd(s, a + 3, White)
        x == RunEnd(s, b + 1, Digits)
        y == RunEnd(s, x + 2, Digits)
        c == RunEnd(s, y + 1, White)
    IN IF /\ Lower(At(s, k)) = "total" /\ a >= k + 1
          /\ Lower(At(s, a + 1)) = "tests" /\ At(s, a + 2) = ":"
          /\ x >= b + 1 /\ At(s, x + 1) = "/" /\ y >= x + 2
          /\ Lower(At(s, c + 1)) = "passed"
       THEN [found |-> TRUE, passed |-> ParseInt(SubSeq(s, b + 1, x)),
             total |-> ParseInt(SubSeq(s, x + 2, y)), end |-> c + 1]
       ELSE NoMatch

\* /Passed\s*(\d+)\/(\d+)\s*tests/i matched at position k of s
PassedAt(s, k) ==
    LET b == RunEnd(s, k + 1, White)
        x == RunEnd(s, b + 1, Digits)
        y == RunEnd(s, x + 2, Digits)
        c == RunEnd(s, y + 1, White)
    IN IF /\ Lower(At(s, k)) = "passed"
          /\ x >= b + 1 /\ At(s, x + 1) = "/" /\ y >= x + 2
          /\ Lower(At(s, c + 1)) = "tests"
       THEN [found |-> TRUE, passed |-> ParseInt(SubSeq(s, b + 1, x)),
             total |-> ParseInt(SubSeq(s, x + 2, y)), end |-> c + 1]
       ELSE NoMatch

RegexAt(re, s, k) == IF re = "total" THEN TotalAt(s, k) ELSE PassedAt(s, k)

\* regex.exec(content) of a g-flagged expression: the leftmost match at or after
\* lastIndex, NoMatch for null
Exec(re, s, lastIndex) ==
    LET hits == {k \in lastIndex..Len(s) : RegexAt(re, s, k).found}
    IN IF hits = {} THEN NoMatch
       ELSE RegexAt(re, s, CHOOSE k \in hits : \A j \in hits : k <= j)

\* while ((match = regex.exec(content)) !== null) { last = match }
RECURSIVE LastMatch(_, _, _, _)
LastMatch(re, s, lastIndex, last) ==
    LET m == Exec(re, s, lastIndex)
    IN IF m.found THEN LastMatch(re, s, m.end + 1, m) ELSE last

\* the verdict of the numbers found (route.ts:581-584, 597-600)
Verdict(m) == IF m.total > 0 THEN m.passed = m.total ELSE FALSE

\* Faulty variant: no fallback to 'Passed X/Y tests'
determineFinalSuccessTotalOnly(lines) ==
    LET t == LastMatch("total", Joined(lines), 1, NoMatch)
    IN IF t.found THEN Verdict(t) ELSE FALSE

\* Faulty variant: the first occurrence decides
determineFinalSuccessFirst(lines) ==
    LET s == Joined(lines)
        t == Exec("total", s, 1)
        p == Exec("passed", s, 1)
    IN IF t.found THEN Verdict(t) ELSE IF p.found THEN Verdict(p) ELSE FALSE

\* determineFinalSuccess (route.ts:569-604)
determineFinalSuccess(lines) ==
    LET s == Joined(lines)
        t == LastMatch("total", s, 1, NoMatch)
        p == LastMatch("passed", s, 1, NoMatch)
    IN IF t.found THEN Verdict(t) ELSE IF p.found THEN Verdict(p) ELSE FALSE

(***************************************************************************)
(* parseTestResults (route.ts:362-516).  A test line is made of the        *)
(* tokens "pass", "fail", "PASSED", "FAILED", ":", blanks and the pieces   *)
(* of the path and of the test name; "::" is two ":" tokens.               *)
(***************************************************************************)
LeastOf(S) == CHOOSE k \in S : \A j \in S : k <= j
GreatestOf(S) == CHOOSE k \in S : \A j \in S : k >= j

\* the end of a result pattern after the ":" at position d: \s+OUT, or \s*$ when
\* out is "$"
EndOk(L, d, out) ==
    LET e == RunEnd(L, d + 1, Blanks)
    IN IF out = "$" THEN e = Len(L) ELSE e >= d + 1 /\ At(L, e + 1) = out

\* /KW\s+(.+?)::(.+?):<end>/ on line L: the positions where the parts can
\* end, given the start s of KW (b: end of \s+, c: the "::", d: the last ":")
NameEnds(L, c, out) == {d \in (c + 3)..Len(L) : L[d] = ":" /\ EndOk(L, d, out)}
PathEnds(L, b, out) ==
    {c \in (b + 2)..(Len(L) - 1) : L[c] = ":" /\ L[c + 1] = ":" /\ NameEnds(L, c, out) # {}}
BlankEnds(L, s, out) == {b \in (s + 1)..RunEnd(L, s + 1, Blanks) : PathEnds(L, b, out) # {}}
Starts(L, kw, out) == {s \in 1..Len(L) : L[s] = kw /\ BlankEnds(L, s, out) # {}}

\* Faulty variant: the first group is greedy and runs to the last "::"
ResultMatchGreedy(L, kw, out) ==
    IF Starts(L, kw, out) = {} THEN [found |-> FALSE, filePath |-> <<>>, testName |-> <<>>]
    ELSE LET s == LeastOf(Starts(L, kw, out))
             b == GreatestOf(BlankEnds(L, s, out))
             c == GreatestOf(PathEnds(L, b, out))
             d == LeastOf(NameEnds(L, c, out))
         IN [found |-> TRUE, filePath |-> SubSeq(L, b + 1, c - 1),
             testName |-> SubSeq(L, c + 2, d - 1)]

\* line.match(...): leftmost start, greedy \s+, lazy groups
ResultMatch(L, kw, out) ==
    IF Starts(L, kw, out) = {} THEN [found |-> FALSE, filePath |-> <<>>, testName |-> <<>>]
    ELSE LET s == LeastOf(Starts(L, kw, out))
             b == GreatestOf(BlankEnds(L, s, out))
             c == LeastOf(PathEnds(L, b, out))
             d == LeastOf(NameEnds(L, c, out))
         IN [found |-> TRUE, filePath |-> SubSeq(L, b + 1, c - 1),
             testName |-> SubSeq(L, c + 2, d - 1)]

\* the TestResult pushed for a path and a name
TestResult(filePath, testName, status) ==
    [name |-> testName, status |-> status, fullName |-> filePath \o <<":", ":">> \o testName]

\* nextLine.replace(sub, ''): the first occurrence removed
RemoveFirst(L, sub) ==
    LET k == IndexOf(L, sub)
    IN IF k = 0 THEN L ELSE SubSeq(L, 1, k - 1) \o From(L, k + Len(sub))

\* parts.slice(1).join('::')
RECURSIVE JoinColons(_)
JoinColons(parts) ==
    IF parts = <<>> THEN <<>>
    ELSE IF Len(parts) = 1 THEN parts[1]
    ELSE parts[1] \o <<":", ":">> \o JoinColons(Tail(parts))

\* Faulty variant of the look-ahead: no limit of three lines
RECURSIVE LookAheadUnbounded(_, _, _, _, _, _)
LookAheadUnbounded(lines, i, j, fullTestPath, out, other) ==
    IF j > Len(lines)
    THEN [foundEnd |-> FALSE, fullTestPath |-> fullTestPath, j |-> j]
    ELSE LET nextLine == Trim(lines[j])
         IN IF nextLine = <<"pass">> \/ nextLine = <<"fail">>
            THEN [foundEnd |-> FALSE, fullTestPath |-> fullTestPath, j |-> j]
            ELSE IF Includes(nextLine, <<":", " ", out>>)
            THEN [foundEnd |-> TRUE, j |-> j,
                  fullTestPath |-> fullTestPath \o RemoveFirst(nextLine, <<":", " ", out>>)]
            ELSE IF nextLine = <<out>>
            THEN [foundEnd |-> TRUE, fullTestPath |-> fullTestPath, j |-> j]
            ELSE IF Includes(nextLine, <<":", ":">>)
            THEN LookAheadUnbounded(lines, i, j + 1, fullTestPath \o nextLine, out, other)
            ELSE IF Len(nextLine) > 0 /\ ~Includes(nextLine, <<other>>)
            THEN LookAheadUnbounded(lines, i, j + 1, fullTestPath \o nextLine, out, other)
            ELSE LookAheadUnbounded(lines, i, j + 1, fullTestPath, out, other)

\* the look-ahead loop after a standalone pass / fail at line i (route.ts:431-453,
\* 475-497): j is the line examined, out the outcome word, other the opposite one
RECURSIVE LookAhead(_, _, _, _, _, _)
LookAhead(lines, i, j, fullTestPath, out, other) ==
    IF ~(j <= Len(lines) /\ j < i + 4)
    THEN [foundEnd |-> FALSE, fullTestPath |-> fullTestPath, j |-> j]
    ELSE LET nextLine == Trim(lines[j])
         IN IF nextLine = <<"pass">> \/ nextLine = <<"fail">>
            THEN [foundEnd |-> FALSE, fullTestPath |-> fullTestPath, j |-> j]
            ELSE IF Includes(nextLine, <<":", " ", out>>)
            THEN [foundEnd |-> TRUE, j |-> j,
                  fullTestPath |-> fullTestPath \o RemoveFirst(nextLine, <<":", " ", out>>)]
            ELSE IF nextLine = <<out>>
            THEN [foundEnd |-> TRUE, fullTestPath |-> fullTestPath, j |-> j]
            ELSE IF Includes(nextLine, <<":", ":">>)
            THEN LookAhead(lines, i, j + 1, fullTestPath \o nextLine, out, other)
            ELSE IF Len(nextLine) > 0 /\ ~Includes(nextLine, <<other>>)
            THEN LookAhead(lines, i, j + 1, fullTestPath \o nextLine, out, other)
            ELSE LookAhead(lines, i, j + 1, fullTestPath, out, other)

\* Faulty variant: the lines of an emitted record are scanned again
ResumeNext(i, last) == i + 1

\* the index the loop continues at after a record that ends at line last
\* (`i++` at route.ts:409 and 423, `i = j` at 461 and 505, then the loop's i++)
Resume(i, last) == last + 1

\* one iteration of the loop, at line i (1-based; route.ts:367-510): the results
\* pushed, the last line they were read from, and the value of i for the next
\* iteration
ScanLine(lines, i) ==
    LET line == Trim(lines[i])
        more == i + 1 <= Len(lines)
        passMatch == ResultMatch(line, "pass", "PASSED")
        failMatch == ResultMatch(line, "fail", "FAILED")
        passStartMatch == ResultMatch(line, "pass", "$")
        failStartMatch == ResultMatch(line, "fail", "$")
        status == IF line = <<"pass">> THEN "pass" ELSE "fail"
        ahead == IF status = "pass"
                 THEN LookAhead(lines, i, i + 1, <<>>, "PASSED", "FAILED")
                 ELSE LookAhead(lines, i, i + 1, <<>>, "FAILED", "PASSED")
        parts == Split(ahead.fullTestPath, <<":", ":">>)
        Pushed(r, last) == [push |-> <<r>>, last |-> last, next |-> Resume(i, last)]
        Nothing == [push |-> <<>>, last |-> i, next |-> i + 1]
    IN IF passMatch.found
       THEN Pushed(TestResult(passMatch.filePath, passMatch.testName, "pass"), i)
       ELSE IF failMatch.found
       THEN Pushed(TestResult(failMatch.filePath, failMatch.testName, "fail"), i)
       ELSE IF passStartMatch.found /\ more
       THEN IF Trim(lines[i + 1]) = <<"PASSED">>
            THEN Pushed(TestResult(passStartMatch.filePath, passStartMatch.testName, "pass"),
                        i + 1)
            ELSE Nothing
       ELSE IF failStartMatch.found /\ more
       THEN IF Trim(lines[i + 1]) = <<"FAILED">>
            THEN Pushed(TestResult(failStartMatch.filePath, failStartMatch.testName, "fail"),
                        i + 1)
            ELSE Nothing
       ELSE IF (line = <<"pass">> \/ line = <<"fail">>) /\ more
       THEN IF ahead.foundEnd /\ Includes(ahead.fullTestPath, <<":", ":">>)
            THEN Pushed(TestResult(parts[1], JoinColons(Tail(parts)), status), ahead.j)
            ELSE Nothing
       ELSE Nothing

\* the loop over the lines, from line i on (1-based), results found so far
RECURSIVE ScanTests(_, _, _)
ScanTests(lines, i, testResults) ==
    IF i > Len(lines) THEN testResults
    ELSE ScanTests(lines, ScanLine(lines, i).next, testResults \o ScanLine(lines, i).push)

parseTestResults(lines) == ScanTests(lines, 1, <<>>)

(***************************************************************************)
(* extractDiffs (route.ts:606-657).  A quote is the token "'"; the keys    *)
(* 'agent_diff': and 'golden_diff': are tokens that begin with a quote; a  *)
(* backslash is the token "\\", so the escape \n is the pair "\\", "n".    *)
(* The new line and the tab of an unescaped diff are the tokens NL, TAB.   *)
(***************************************************************************)
Quote == "'"
Backslash == "\\"
TAB == "\t"
AgentKey == "'agent_diff':"
GoldenKey == "'golden_diff':"
\* the tokens in which [^'] finds a quote
Quoted == {Quote, AgentKey, GoldenKey}
NoDiff == <<"null">>

\* content.match(/'<key>':\s*'([^']*(?:\\'[^']*)*)'/) : the capture, or null.
\* [^']* is greedy and takes a backslash as well, so it runs to the first quote,
\* where the closing ' matches with no repetition of the group.
DiffMatch(s, key) ==
    LET hits == {k \in 1..Len(s) :
                    /\ s[k] = key
                    /\ At(s, RunEnd(s, k + 1, White) + 1) = Quote
                    /\ LET open == RunEnd(s, k + 1, White) + 1
                           close == RunEnd(s, open + 1,
                                           {s[j] : j \in 1..Len(s)} \ Quoted) + 1
                       IN close <= Len(s)}
    IN IF hits = {} THEN NoDiff
       ELSE LET open == RunEnd(s, LeastOf(hits) + 1, White) + 1
            IN SubSeq(s, open + 1,
                      RunEnd(s, open + 1, {s[j] : j \in 1..Len(s)} \ Quoted))

\* s.replace(/<a><b>/g, to) for the pair of tokens a, b
RECURSIVE ReplacePair(_, _, _, _)
ReplacePair(s, a, b, to) ==
    IF Len(s) < 2 THEN s
    ELSE IF s[1] = a /\ s[2] = b THEN <<to>> \o ReplacePair(From(s, 3), a, b, to)
    ELSE <<s[1]>> \o ReplacePair(Tail(s), a, b, to)

\* .replace(/\\'/g, "'").replace(/\\n/g, "\n").replace(/\\t/g, "\t")
Unescape(s) ==
    ReplacePair(ReplacePair(ReplacePair(s, Backslash, Quote, Quote), Backslash, "n", NL),
                Backslash, "t", TAB)

Diff(s, key) == IF DiffMatch(s, key) = NoDiff THEN NoDiff ELSE Unescape(DiffMatch(s, key))

\* Faulty variant: a test against null, which an empty string passes
PresentNotNull(d) == d # NoDiff

\* truthiness of string | null
Present(d) == d # NoDiff /\ d # <<>>

\* d.split("\n").length
LineCount(d) == Cardinality({k \in 1..Len(d) : d[k] = NL}) + 1

\* agentDiff.matchAll(/--- a\/(.*?)\n\+\+\+ b\//g), from position k on: the paths
RECURSIVE FileMatches(_, _)
FileMatches(d, k) ==
    LET hits == {j \in k..Len(d) :
                    /\ d[j] = "--- a/"
                    /\ LET e == RunEnd(d, j + 1, {d[i] : i \in 1..Len(d)} \ {NL})
                       IN At(d, e + 1) = NL /\ At(d, e + 2) = "+++ b/"}
    IN IF hits = {} THEN <<>>
       ELSE LET j == LeastOf(hits)
                e == RunEnd(d, j + 1, {d[i] : i \in 1..Len(d)} \ {NL})
            IN <<SubSeq(d, j + 1, e)>> \o FileMatches(d, e + 3)

\* Faulty variant: no Set, every match is kept
DistinctKeepsAll(paths) == paths

\* Array.from(new Set(paths)): the first occurrence of each path, in order
RECURSIVE Distinct(_)
Distinct(paths) ==
    IF paths = <<>> THEN <<>>
    ELSE LET rest == Distinct(SubSeq(paths, 1, Len(paths) - 1))
             last == paths[Len(paths)]
         IN IF \E k \in 1..Len(rest) : rest[k] = last THEN rest ELSE Append(rest, last)

extractDiffs(lines) ==
    LET s == Joined(lines)
        agentDiff == Diff(s, AgentKey)
        goldenDiff == Diff(s, GoldenKey)
        filesChanged == IF Present(agentDiff) THEN Distinct(FileMatches(agentDiff, 1))
                        ELSE <<>>
    IN [agentDiff |-> agentDiff, goldenDiff |-> goldenDiff, filesChanged |-> filesChanged,
        diffStats |-> [agentFilesChanged |-> Len(filesChanged),
                       goldenFilesChanged |-> IF Present(goldenDiff) THEN 1 ELSE 0,
                       agentLines |-> IF Present(agentDiff) THEN LineCount(agentDiff) ELSE 0,
                       goldenLines |-> IF Present(goldenDiff) THEN LineCount(goldenDiff)
                                       ELSE 0]]

(***************************************************************************)
(* parseLogFile as a whole (route.ts:118-360): the names taken from the    *)
(* filename, the loop over the lines, the extractors.  A filename is a     *)
(* sequence of tokens: the separators "_", "-", ".", words, digits and     *)
(* model names; TextsIn gives the searched texts a token contains.         *)
(***************************************************************************)
TextsIn(t) ==
    CASE t = "gpt-5" -> {"gpt-5"}
      [] t = "gpt-4" -> {"gpt-4"}
      [] t = "claude-3-5-sonnet" -> {"claude", "claude-3-5-sonnet"}
      [] t = "claude-sonnet-4-5-20250929" ->
             {"claude", "claude-sonnet-4", "claude-sonnet-4-5-20250929"}
      [] t = "gemini-2.5-pro" -> {"gemini", "gemini-2.5-pro"}
      [] t = "gemini_gemini-2.5-pro" -> {"gemini", "gemini-2.5-pro", "gemini_gemini-2.5-pro"}
      [] OTHER -> {t}

\* filename.includes(text) for a searched model text
HasText(name, text) == \E k \in 1..Len(name) : text \in TextsIn(name[k])

\* the model detection of the old filename format (route.ts:148-168)
DetectedModel(name) ==
    IF HasText(name, "gpt-5") THEN <<"gpt-5">>
    ELSE IF HasText(name, "gpt-4") THEN <<"gpt-4">>
    ELSE IF HasText(name, "claude")
    THEN IF HasText(name, "claude-3-5-sonnet") THEN <<"claude-3-5-sonnet">>
         ELSE IF HasText(name, "claude-sonnet-4") THEN <<"claude-sonnet-4-5-20250929">>
         ELSE <<"claude-3-5-sonnet">>
    ELSE IF HasText(name, "gemini")
    THEN IF HasText(name, "gemini-2.5-flash-preview-09-2025") THEN <<"gemini-2.5-flash-preview">>
         ELSE IF HasText(name, "gemini-2.5-pro") THEN <<"gemini-2.5-pro">>
         ELSE <<"gemini-2.5-flash">>
    ELSE <<"unknown">>

\* the trajectory before the loop (route.ts:119-170)
NamedParser(name) ==
    LET filenameParts == Split(name, <<"_">>)
        n == Len(filenameParts)
    IN IF n < 2 THEN InitParser
       ELSE IF n = 2
       THEN [InitParser EXCEPT !.modelName = filenameParts[1],
                               !.taskName = RemoveFirst(filenameParts[2], <<".", "log">>)]
       ELSE [InitParser EXCEPT !.modelName = DetectedModel(name),
                               !.taskName = RemoveFirst(filenameParts[n], <<".", "log">>)]

CountPassed(testResults) ==
    Cardinality({k \in 1..Len(testResults) : testResults[k].status = "pass"})

(***************************************************************************)
(* parseLabTrainingMetrics (route.ts:518-557).  The marker, the labels,    *)
(* '-- Details --' and 'True' are tokens.  A metrics object is a record of *)
(* the seven keys; the value of a key that was never assigned is <<>>.     *)
(***************************************************************************)
Marker == "-- Lab Training Metrics --"
Details == "-- Details --"
BoolLabels == <<"Tests Passed:", "Agent Success:", "Code Changes Made:", "No Syntax Errors:">>
IntLabels == <<"Conversation Length:", "Successful Edits:", "Final Code Files:">>
KeyOf(label) ==
    CASE label = "Tests Passed:" -> "testsPassed"
      [] label = "Agent Success:" -> "agentSuccess"
      [] label = "Code Changes Made:" -> "codeChangesMade"
      [] label = "No Syntax Errors:" -> "noSyntaxErrors"
      [] label = "Conversation Length:" -> "conversationLength"
      [] label = "Successful Edits:" -> "successfulEdits"
      [] label = "Final Code Files:" -> "finalCodeFiles"
MetricKeys == {KeyOf(BoolLabels[k]) : k \in DOMAIN BoolLabels}
                 \cup {KeyOf(IntLabels[k]) : k \in DOMAIN IntLabels}
NoMetrics == [k \in MetricKeys |-> <<>>]

\* the first label of the else-if chain that the line includes; "" when none
FirstLabel(line) ==
    LET labels == BoolLabels \o IntLabels
        hits == {k \in DOMAIN labels : Includes(line, <<labels[k]>>)}
    IN IF hits = {} THEN "" ELSE labels[LeastOf(hits)]

\* metricLine.match(/<label>\s*(\d+)/): the digits, <<>> for no match
LabelDigits(line, label) ==
    LET hits == {k \in DOMAIN line :
                    /\ line[k] = label
                    /\ RunEnd(line, RunEnd(line, k + 1, Blanks) + 1, Digits)
                          > RunEnd(line, k + 1, Blanks)}
    IN IF hits = {} THEN <<>>
       ELSE LET b == RunEnd(line, LeastOf(hits) + 1, Blanks)
            IN SubSeq(line, b + 1, RunEnd(line, b + 1, Digits))

\* one line of the section (route.ts:530-549)
OnMetricLine(metrics, line) ==
    LET label == FirstLabel(line)
    IN IF label = "" THEN metrics
       ELSE IF \E k \in DOMAIN BoolLabels : BoolLabels[k] = label
       THEN [metrics EXCEPT ![KeyOf(label)] =
                IF Includes(line, <<"True">>) THEN <<"true">> ELSE <<"false">>]
       ELSE IF LabelDigits(line, label) = <<>> THEN metrics
       ELSE [metrics EXCEPT ![KeyOf(label)] = <<ParseInt(LabelDigits(line, label))>>]

\* Faulty variant: the section runs through line i + 20
SectionEndInclusive(i, len) == Min(i + 21, len)

\* the bound of the inner loop, for the marker at 0-based index i: j runs from
\* i + 1 while j < Math.min(i + 20, lines.length) (route.ts:528)
SectionEnd(i, len) == Min(i + 20, len)

\* the inner loop from the 0-based index j on
RECURSIVE ScanMetrics(_, _, _, _)
ScanMetrics(lines, j, end, metrics) ==
    IF ~(j < end) THEN metrics
    ELSE LET metricLine == Trim(lines[j + 1])
         IN IF FirstLabel(metricLine) = "" /\ Includes(metricLine, <<Details>>) THEN metrics
            ELSE ScanMetrics(lines, j + 1, end, OnMetricLine(metrics, metricLine))

\* parseLabTrainingMetrics: the object, or undefined when it has no key
parseLabTrainingMetrics(lines) ==
    LET at == {i \in 0..(Len(lines) - 1) : Includes(Trim(lines[i + 1]), <<Marker>>)}
        metrics == IF at = {} THEN NoMetrics
                   ELSE ScanMetrics(lines, LeastOf(at) + 1,
                                    SectionEnd(LeastOf(at), Len(lines)), NoMetrics)
    IN [defined |-> metrics # NoMetrics, metrics |-> metrics]

\* the trajectory returned after the loop (route.ts:341-359); threw marks an
\* exception, which leaves the caller without a trajectory (route.ts:103-108)
Assemble(p, name, lines) ==
    LET testResults == parseTestResults(lines)
    IN [served |-> TRUE, threw |-> p.threw, filename |-> name,
        taskName |-> p.taskName, modelName |-> p.modelName,
        totalIterations |-> p.totalIterations, toolCalls |-> p.toolCalls,
        errors |-> p.errors, testsPassed |-> CountPassed(testResults),
        totalTests |-> Len(testResults),
        finalSuccess |-> determineFinalSuccess(lines),
        steps |-> p.steps, testResults |-> testResults,
        labTrainingMetrics |-> parseLabTrainingMetrics(lines),
        finalDiffs |-> extractDiffs(lines)]

\* parseLogFile(filename, content)
parseLogFile(name, lines) == Assemble(ParseLines(NamedParser(name), lines), name, lines)

(***************************************************************************)
(* Requests for the trajectory of one log file (route.ts:80-110).  The     *)
(* file is read and parsed at each request; between two requests the       *)
(* producer of the log may have added or dropped whitespace-only lines.    *)
(***************************************************************************)
MaxContent == 4
WhitespaceLines == {<<>>, <<" ">>}

InsertAt(lines, k, l) == SubSeq(lines, 1, k - 1) \o <<l>> \o From(lines, k)
RemoveAt(lines, k) == SubSeq(lines, 1, k - 1) \o From(lines, k + 1)

Serve(lines) ==
    /\ content' = lines
    /\ trajectory' = parseLogFile(filename, lines)
    /\ pc' = "served"
    /\ UNCHANGED <<parserVars, filename, resolved, callVars,
                 serverVars, clientVars, studentVars>>

\* GET: the file is read and parsed
GetTrajectory == pc = "file" /\ Serve(content)

\* GET after a whitespace-only line was added before line k (or at the end)
InsertWhitespaceLine ==
    /\ pc = "served" /\ Len(content) < MaxContent
    /\ \E k \in 1..(Len(content) + 1), w \in WhitespaceLines : Serve(InsertAt(content, k, w))

\* GET after the whitespace-only line k was dropped
RemoveWhitespaceLine ==
    /\ pc = "served" /\ Len(content) > 1
    /\ \E k \in 1..Len(content) : Trim(content[k]) = <<>> /\ Serve(RemoveAt(content, k))

NextFile == GetTrajectory \/ InsertWhitespaceLine \/ RemoveWhitespaceLine

\* the contents of 1..n lines drawn from a set of lines
ContentsOf(S, n) == UNION {[1..m -> S] : m \in 1..n}

FileInit(contents, names) ==
    /\ IdleParser /\ IdleCalls
    /\ IdleServer /\ IdleClient /\ IdleStudents
    /\ pc = "file" /\ content \in contents /\ trajectory = NoTrajectory
    /\ filename \in names /\ resolved = NoResolved

LogName == <<"gpt-5", "_", "a", ".", "log">>

(***************************************************************************)
(* Specification SpecOutcome: contents made of summary lines.              *)
(***************************************************************************)
MaxOutcomeLines == 3

Summary(x, y) == <<"Total", " ", "tests", ":", " ">> \o x \o <<"/">> \o y \o <<" ", "passed">>
OutcomeLines ==
    {Summary(<<"1">>, <<"2">>), Summary(<<"2">>, <<"2">>), Summary(<<"0">>, <<"0">>),
     Summary(<<"1", "0">>, <<"1", "0">>),
     <<"TOTAL", " ", " ", "Tests", ":", "3", "/", "3", "PASSED">>,
     <<"Total">>, <<"tests", ":", "2", "/", "2", " ", "passed">>,
     <<"Total", " ", "tests", ":", " ", "/", "2", " ", "passed">>,
     <<"Passed", " ", "2", "/", "2", " ", "tests">>,
     <<"Passed", " ", "1", "/", "2", " ", "tests">>}

InitOutcome == FileInit(ContentsOf(OutcomeLines, MaxOutcomeLines), {LogName})
SpecOutcome == InitOutcome /\ [][GetTrajectory]_vars

\* the positions of the content string where 'Total tests: X/Y passed' occurs
Occurrences(lines) ==
    {k \in 1..Len(Joined(lines)) : TotalAt(Joined(lines), k).found}
LastOccurrence(lines) == TotalAt(Joined(lines), GreatestOf(Occurrences(lines)))
FirstOccurrence(lines) == TotalAt(Joined(lines), LeastOf(Occurrences(lines)))

\* C1: when the content holds at least one 'Total tests: X/Y passed', finalSuccess
\* is true exactly when the last occurrence has X = Y and Y > 0, whatever the
\* earlier occurrences and the 'Passed X/Y tests' lines say
C1_LastTotalWins ==
    (pc = "served" /\ Occurrences(content) # {})
        => (trajectory.finalSuccess
               <=> /\ LastOccurrence(content).passed = LastOccurrence(content).total
                   /\ LastOccurrence(content).total > 0)

\* C1 witness: a first occurrence with X = Y > 0, a last one with X # Y, and the
\* verdict of the last one
C1_Witness ==
    /\ pc = "served" /\ Cardinality(Occurrences(content)) >= 2
    /\ FirstOccurrence(content).passed = FirstOccurrence(content).total
    /\ FirstOccurrence(content).total > 0
    /\ LastOccurrence(content).passed # LastOccurrence(content).total
    /\ trajectory.finalSuccess = FALSE

(***************************************************************************)
(* Specification SpecTests: contents that serialize one test outcome in    *)
(* one of the shapes of parseTestResults (route.ts:369-373).  seen records *)
(* the outcome and the shape.                                              *)
(***************************************************************************)
MaxPieces == 3

Paths == {<<"tasks/", "a.py">>, <<"a.py">>}
TestNames == {<<"test", "_x">>, <<"Class", ":", ":", "test">>}
Statuses == {"pass", "fail"}
Outcome(status) == IF status = "pass" THEN "PASSED" ELSE "FAILED"
Fragment(q) == q.path \o <<":", ":">> \o q.name

\* the pieces of a fragment cut after the positions of cuts
RECURSIVE Pieces(_, _, _)
Pieces(frag, cuts, from) ==
    LET later == {c \in cuts : c >= from}
    IN IF later = {} THEN <<SubSeq(frag, from, Len(frag))>>
       ELSE <<SubSeq(frag, from, LeastOf(later))>> \o Pieces(frag, cuts, LeastOf(later) + 1)

\* the lines of each shape
Shape1(q) == <<<<q.status, " ">> \o Fragment(q) \o <<":", " ", Outcome(q.status)>>>>
Shape2(q) ==
    <<(IF q.keyword THEN <<q.status, " ">> ELSE <<>>) \o Fragment(q) \o <<":">>,
      <<Outcome(q.status)>>>>
Shape3(q) == <<<<q.status>>, Fragment(q) \o <<":", " ", Outcome(q.status)>>>>
Shape4(q) ==
    LET pieces == Pieces(Fragment(q), q.cuts, 1)
        n == Len(pieces)
    IN <<<<q.status>>>> \o
       (IF q.inline
        THEN SubSeq(pieces, 1, n - 1) \o <<pieces[n] \o <<":", " ", Outcome(q.status)>>>>
        ELSE pieces \o <<<<Outcome(q.status)>>>>)

Indented(lines, indent) == [k \in 1..Len(lines) |-> IF indent THEN <<" ">> \o lines[k] ELSE lines[k]]

Serialized(q) ==
    (IF q.before THEN <<<<"x">>>> ELSE <<>>)
    \o Indented(CASE q.shape = 1 -> Shape1(q) [] q.shape = 2 -> Shape2(q)
                  [] q.shape = 3 -> Shape3(q) [] q.shape = 4 -> Shape4(q), q.indent)
    \o (IF q.after THEN <<<<"x">>>> ELSE <<>>)

\* the serializations: shape 2 with and without the leading status word, shape 4
\* with the fragment in 1..MaxPieces pieces and either terminator
Serializations ==
    {q \in [shape : 1..4, path : Paths, name : TestNames, status : Statuses,
            keyword : BOOLEAN, inline : BOOLEAN, before : BOOLEAN, after : BOOLEAN,
            indent : BOOLEAN,
            cuts : {S \in SUBSET (1..6) : Cardinality(S) < MaxPieces}] :
        /\ q.cuts \subseteq 1..(Len(Fragment(q)) - 1)
        /\ q.shape # 4 => q.cuts = {} /\ ~q.inline
        /\ q.shape # 2 => q.keyword
        /\ q.shape = 4 /\ q.inline => q.cuts # {}}

InitTests ==
    /\ parser = InitParser /\ nLines = 0 /\ rawLine = <<>> /\ IdleCalls
    /\ IdleServer /\ IdleClient /\ IdleStudents
    /\ pc = "file" /\ trajectory = NoTrajectory /\ filename = LogName /\ resolved = NoResolved
    /\ \E q \in Serializations : seen = q /\ content = Serialized(q)
SpecTests == InitTests /\ [][GetTrajectory]_vars

Expected(q) == TestResult(q.path, q.name, q.status)

\* the shapes the extractor reads: in shape 2 the line starts with the status
\* word, in shape 4 the pieces and the terminator are the 3 lines after the token
Supported(q) ==
    /\ q.shape = 2 => q.keyword
    /\ q.shape = 4 => Cardinality(q.cuts) + 1 + (IF q.inline THEN 0 ELSE 1) <= 3

MaxFileLines == 3

TPass == <<"pass">>
TStart == <<"pass", " ", "a.py", ":", ":", "t", ":">>
TFragment == <<"a.py", ":", ":", "t">>
TPassed == <<"PASSED">>
TSingle == <<"pass", " ", "a.py", ":", ":", "t", ":", " ", "PASSED">>
FileLines == {LIter1, LTool, TPass, TStart, TFragment, TPassed, TSingle}

InitWhitespace == FileInit(ContentsOf(FileLines, MaxFileLines), {LogName})
SpecWhitespace == InitWhitespace /\ [][NextFile]_vars

\* the three values of the claim
Counts(t) == <<t.totalIterations, t.toolCalls, Len(t.testResults)>>

\* a whitespace-only line put before line k of lines lands inside a multi-line
\* test record: directly after a 'pass path::test:' line, or among the 3 lines
\* after a standalone pass / fail line
InsideRecord(lines, k) ==
    \/ /\ k - 1 >= 1
       /\ \/ ResultMatch(Trim(lines[k - 1]), "pass", "$").found
          \/ ResultMatch(Trim(lines[k - 1]), "fail", "$").found
    \/ \E j \in (k - 3)..(k - 1) :
          j >= 1 /\ Trim(lines[j]) \in {<<"pass">>, <<"fail">>}

\* the shorter and the longer of the contents before and after a step
Shorter == IF Len(content') > Len(content) THEN content ELSE content'
Longer == IF Len(content') > Len(content) THEN content' ELSE content

\* C6 as stated: a whitespace-only line inserted or removed anywhere leaves
\* totalIterations, toolCalls and the number of testResults as they were
C6_WhitespaceAnywhere ==
    [][(pc = "served" /\ pc' = "served") => Counts(trajectory') = Counts(trajectory)]_vars

\* C6 amended: totalIterations and toolCalls are left as they were by any such
\* line; the number of testResults is left as it was when the line is not put
\* into, or taken out of, a multi-line test record
C6_WhitespaceOutsideRecords ==
    [][(pc = "served" /\ pc' = "served")
          => /\ trajectory'.totalIterations = trajectory.totalIterations
             /\ trajectory'.toolCalls = trajectory.toolCalls
             /\ \A k \in 1..Len(Longer) :
                   (RemoveAt(Longer, k) = Shorter /\ ~InsideRecord(Shorter, k))
                       => Len(trajectory'.testResults) = Len(trajectory.testResults)]_vars

\* C6 witness: an iteration, a tool call and a test record, with a whitespace-only
\* line that was inserted between the tool call and the record
C6_Witness ==
    /\ pc = "served"
    /\ content = <<LIter1, LTool, <<" ">>, TSingle>>
    /\ Counts(trajectory) = <<1, 1, 1>>

(***************************************************************************)
(* Specification SpecTotal: arbitrary filenames, and contents of lines the *)
(* patterns do not match or match in part.                                 *)
(***************************************************************************)
MaxTotalLines == 3

LDatasetBare == <<"Dataset:", "Agent:", "Model:", "Task:">>
LDatasetTwice == <<"Dataset:", ",", "Agent:", ",", "Model:", "Model:", ",", "x", "Task:">>
LNumbers == <<"1", "/", "2", " ", "DATE">>
TotalLines ==
    {<<>>, LBlank, LPlain, LError, LErrorLower, LNumbers,
     LIterBad, LToolBad, LWritingBad, LResultBad, LDatasetBare, LDatasetTwice,
     LIter1, LTool}
Filenames ==
    {<<>>, <<"a">>, <<"_">>, LogName,
     <<"1", "_", "x", "_", "claude-sonnet-4-5-20250929", "_", "a", "-", "b", ".", "log">>,
     <<"_", "_", ".", "log">>}

InitTotal == FileInit(ContentsOf(TotalLines, MaxTotalLines), Filenames)
SpecTotal == InitTotal /\ [][GetTrajectory]_vars

\* the texts of the recognised patterns
RecognisedTokens ==
    {"Starting benchmark run", "Dataset:", "Agent:", "Model:", "Task:", H, "Iteration",
     "making LLM call", "Tool call", "Tool 0 result success:", "pass", "fail", "PASSED",
     "FAILED", "Total", "TOTAL", "tests", "Tests", "Passed", "passed"}
Unrecognised(lines) ==
    \A k \in 1..Len(lines) : \A j \in 1..Len(lines[k]) : lines[k][j] \notin RecognisedTokens

\* C9: parseLogFile returns a trajectory for every filename and content, without
\* an exception; for a content that holds none of the recognised texts the steps
\* and testResults are empty, the counters are 0 and finalSuccess is false
C9_Total ==
    pc = "served"
        => /\ ~trajectory.threw
           /\ Unrecognised(content)
                 => /\ trajectory.steps = <<>> /\ trajectory.testResults = <<>>
                    /\ trajectory.totalIterations = 0 /\ trajectory.toolCalls = 0
                    /\ trajectory.errors = 0 /\ trajectory.testsPassed = 0
                    /\ trajectory.totalTests = 0 /\ trajectory.finalSuccess = FALSE

\* C9 witness: a content of an ERROR line, a line of numbers and an empty line,
\* under a filename without separators, parsed to the minimal record
C9_Witness ==
    /\ pc = "served" /\ filename = <<"a">>
    /\ content = <<LError, LNumbers, <<>>>>
    /\ ~trajectory.threw /\ trajectory.steps = <<>> /\ trajectory.errors = 0
    /\ trajectory.modelName = <<"unknown">>

(***************************************************************************)
(* The filename resolvers of the page (page.tsx:494-639).  A filename is a *)
(* sequence of tokens: the separators "-" and "_", the dot, words of       *)
(* letters, digits, and the known model names.                             *)
(***************************************************************************)
KnownModels == <<"claude-sonnet-4-5-20250929", "gemini_gemini-2.5-pro", "gpt-5">>
Display(m) ==
    CASE m = "claude-sonnet-4-5-20250929" -> <<"Claude Sonnet 4.5">>
      [] m = "gemini_gemini-2.5-pro" -> <<"Gemini 2.5 Pro">>
      [] m = "gpt-5" -> <<"GPT-5">>

Separators == {"-", "_"}
Extensions == {"log", "txt", "LOG"}
Letters == {"a", "b", "B", "log", "txt", "LOG"}

\* word.charAt(0).toUpperCase() and word.slice(1).toLowerCase(), on one token
UpperFirst(t) ==
    CASE t = "a" -> "A" [] t = "b" -> "B" [] t = "log" -> "Log" [] t = "txt" -> "Txt"
      [] t = "gpt-5" -> "Gpt-5" [] t = "gpt-4" -> "Gpt-4"
      [] t = "claude-sonnet-4-5-20250929" -> "Claude-sonnet-4-5-20250929"
      [] t = "gemini_gemini-2.5-pro" -> "Gemini_gemini-2.5-pro"
      [] OTHER -> t
LowerRest(t) == CASE t = "B" -> "b" [] t = "LOG" -> "log" [] OTHER -> t
LowerAfterFirst(t) == CASE t = "LOG" -> "Log" [] OTHER -> UpperFirst(t)

\* s.replace(/\.(log|txt)$/i, '')
StripExtension(s) ==
    IF Len(s) >= 2 /\ s[Len(s) - 1] = "." /\ s[Len(s)] \in Extensions
    THEN SubSeq(s, 1, Len(s) - 2) ELSE s

\* s.replace(/^[-_.]+/, '')
StripLeading(s) == From(s, RunEnd(s, 1, Separators \cup {"."}) + 1)

\* Faulty variant: the known model that comes first in the filename
FirstKnownByPosition(name, n) ==
    LET at == {k \in DOMAIN name : \E m \in DOMAIN KnownModels : name[k] = KnownModels[m]}
    IN IF at = {} THEN 0
       ELSE CHOOSE m \in DOMAIN KnownModels :
                KnownModels[m] = name[CHOOSE k \in at : \A j \in at : k <= j]

\* the first known model that occurs in the filename, in the order of the list;
\* 0 when none occurs
RECURSIVE FirstKnown(_, _)
FirstKnown(name, n) ==
    IF n > Len(KnownModels) THEN 0
    ELSE IF Includes(name, <<KnownModels[n]>>) THEN n
    ELSE FirstKnown(name, n + 1)

\* filename.substring(idx + pattern.length) for the known model n
AfterKnown(name, n) == From(name, IndexOf(name, <<KnownModels[n]>>) + 1)

\* filename.match(pattern) for the three fallback patterns: the end of group 1
\* (0 when the pattern does not match) and group 2
PatternMatch(name, n) ==
    LET len == Len(name)
        hasExt == len >= 2 /\ name[len - 1] = "." /\ name[len] \in Extensions
        lazy == {k \in 1..(len - 2) : name[k + 1] \in Separators}
        lazyExt == {k \in lazy : hasExt /\ k + 2 <= len - 2}
        run == RunEnd(name, 1, {t \in {name[j] : j \in 1..len} : t \notin Separators})
    IN CASE n = 1 ->
              IF lazyExt = {} THEN [end |-> 0, rest |-> <<>>]
              ELSE [end |-> LeastOf(lazyExt),
                    rest |-> SubSeq(name, LeastOf(lazyExt) + 2, len - 2)]
         [] n = 2 ->
              IF lazy = {} THEN [end |-> 0, rest |-> <<>>]
              ELSE [end |-> LeastOf(lazy), rest |-> From(name, LeastOf(lazy) + 2)]
         [] n = 3 ->
              IF run >= 1 /\ run + 2 <= len /\ name[run + 1] \in Separators
              THEN [end |-> run, rest |-> From(name, run + 2)]
              ELSE [end |-> 0, rest |-> <<>>]

\* /^[a-zA-Z]([a-zA-Z0-9._-]*[a-zA-Z0-9])?$/.test(potentialModel)
LooksLikeModel(m) ==
    /\ m # <<>> /\ m[1] \in Letters
    /\ \A k \in 1..Len(m) : m[k] \in Letters \cup Digits \cup Separators \cup {"."}
    /\ m[Len(m)] \in Letters \cup Digits

\* the display form of a model: separators to blanks, each word capitalised and
\* the rest of it lower-cased (page.tsx:529-533)
ModelTitle(m) ==
    [k \in 1..Len(m) |->
        IF m[k] \in Separators THEN " "
        ELSE IF k = 1 \/ m[k - 1] \in Separators THEN LowerAfterFirst(m[k])
        ELSE LowerRest(m[k])]

\* separators to one blank, trim, split(' '), filter(Boolean), capitalise, join(' ')
RECURSIVE TitleWords(_, _)
TitleWords(s, startOfWord) ==
    IF s = <<>> THEN <<>>
    ELSE IF Head(s) \in Separators \cup Blanks
    THEN LET rest == From(s, RunEnd(s, 1, Separators \cup Blanks) + 1)
         IN IF rest = <<>> THEN <<>> ELSE <<" ">> \o TitleWords(rest, TRUE)
    ELSE <<IF startOfWord THEN UpperFirst(Head(s)) ELSE Head(s)>> \o TitleWords(Tail(s), FALSE)

\* formatTaskIdToTitle (page.tsx:631-639), and the same chain of page.tsx:548-554
formatTaskIdToTitle(taskId) ==
    TitleWords(From(taskId, RunEnd(taskId, 1, Separators \cup Blanks) + 1), TRUE)

\* the first fallback pattern, from n on, whose group 1 looks like a model; 0 if none
RECURSIVE FirstModelPattern(_, _)
FirstModelPattern(name, n) ==
    IF n > 3 THEN 0
    ELSE IF PatternMatch(name, n).end # 0
            /\ LooksLikeModel(SubSeq(name, 1, PatternMatch(name, n).end)) THEN n
    ELSE FirstModelPattern(name, n + 1)

\* the first fallback pattern, from n on, that matches; 0 if none
RECURSIVE FirstPattern(_, _)
FirstPattern(name, n) ==
    IF n > 3 THEN 0
    ELSE IF PatternMatch(name, n).end # 0 /\ PatternMatch(name, n).rest # <<>> THEN n
    ELSE FirstPattern(name, n + 1)

\* the clean-up of the task text (page.tsx:542-546, 627-628)
CleanTask(taskRaw, name) ==
    LET t == StripExtension(StripLeading(taskRaw))
    IN IF t = <<>> THEN StripExtension(name) ELSE t

\* parseTrajectoryFilename (page.tsx:494-557)
parseTrajectoryFilename(name) ==
    LET known == FirstKnown(name, 1)
        n == FirstModelPattern(name, 1)
        m == PatternMatch(name, n)
        model == IF known # 0 THEN Display(KnownModels[known])
                 ELSE IF n # 0 THEN ModelTitle(SubSeq(name, 1, m.end))
                 ELSE <<"Unknown">>
        taskRaw == IF known # 0 THEN AfterKnown(name, known)
                   ELSE IF n # 0 THEN (IF m.rest # <<>> THEN m.rest ELSE name)
                   ELSE name
    IN [model |-> model, task |-> formatTaskIdToTitle(CleanTask(taskRaw, name))]

\* getTaskIdFromFilename (page.tsx:592-629)
getTaskIdFromFilename(name) ==
    LET known == FirstKnown(name, 1)
        afterKnown == IF known # 0 THEN AfterKnown(name, known) ELSE name
        n == FirstPattern(name, 1)
        taskRaw == IF afterKnown = name /\ n # 0 THEN PatternMatch(name, n).rest
                   ELSE afterKnown
    IN CleanTask(taskRaw, name)

(***************************************************************************)
(* Specification SpecResolver: one filename, resolved for display          *)
(* (parseTrajectoryFilename) and for grouping (getTaskIdFromFilename, then *)
(* formatTaskIdToTitle), in either order.                                  *)
(***************************************************************************)
MaxNameLen == 4

NameTokens == {"a", "1", "-", "_", ".", "log", "gpt-5"}
NameSet == UNION {[1..m -> NameTokens] : m \in 1..MaxNameLen}

InitResolver ==
    /\ IdleParser /\ IdleExtract /\ IdleCalls
    /\ IdleServer /\ IdleClient /\ IdleStudents
    /\ pc = "name" /\ filename \in NameSet
    /\ resolved = [shown |-> FALSE, keyed |-> FALSE]

\* the display resolver runs
ParseTrajectoryFilename ==
    /\ pc = "name" /\ ~resolved.shown
    /\ resolved' = [f \in DOMAIN resolved \cup {"shown", "model", "task"} |->
                       CASE f = "shown" -> TRUE
                         [] f = "model" -> parseTrajectoryFilename(filename).model
                         [] f = "task" -> parseTrajectoryFilename(filename).task
                         [] OTHER -> resolved[f]]
    /\ UNCHANGED <<parserVars, extractVars, callVars, pc, filename,
                 serverVars, clientVars, studentVars>>

\* the task-id resolver runs, and its result is formatted as a title
GetTaskIdFromFilename ==
    /\ pc = "name" /\ ~resolved.keyed
    /\ resolved' = [f \in DOMAIN resolved \cup {"keyed", "taskId", "title"} |->
                       CASE f = "keyed" -> TRUE
                         [] f = "taskId" -> getTaskIdFromFilename(filename)
                         [] f = "title" -> formatTaskIdToTitle(getTaskIdFromFilename(filename))
                         [] OTHER -> resolved[f]]
    /\ UNCHANGED <<parserVars, extractVars, callVars, pc, filename,
                 serverVars, clientVars, studentVars>>

NextResolver == ParseTrajectoryFilename \/ GetTaskIdFromFilename
SpecResolver == InitResolver /\ [][NextResolver]_vars

\* C7 as stated: for every filename, the title of the task id is the task of the
\* display resolver
C7_ResolversAgree == (resolved.shown /\ resolved.keyed) => resolved.title = resolved.task

(***************************************************************************)
(* Specification SpecCalls: several invocations of parseLogFile, begun at  *)
(* any time and advanced one line at a time in any interleaving (the       *)
(* function itself is synchronous, so the interleavings include every      *)
(* schedule of the runtime).  The toolResultBuffer of an invocation lives  *)
(* in the storage cell BufferOf gives it.                                  *)
(***************************************************************************)
MaxCalls == 2

\* Faulty variant: one buffer at module level
BufferOfShared(c) == 1

\* let toolResultBuffer: string[] = [] (route.ts:176): a buffer of its own for
\* each invocation
BufferOf(c) == c

CallContents ==
    {<<LIter1, LTool, LResultFalse, LPlain>>,
     <<LIter1, LTool, LError>>,
     <<LPlain, LIter2>>}
CallNames == {LogName, <<"a">>}

IdleCall == [phase |-> "idle"]

InitCalls ==
    /\ IdleParser /\ IdleExtract /\ IdleResolver
    /\ IdleServer /\ IdleClient /\ IdleStudents
    /\ pc = "calls"
    /\ calls = [c \in 1..MaxCalls |-> IdleCall]
    /\ buffers = [c \in 1..MaxCalls |-> <<>>]

Running(c) == calls[c].phase = "running"

\* parseLogFile is entered with its arguments (route.ts:118-176)
BeginCall(c) ==
    /\ calls[c].phase # "running"
    /\ \E name \in CallNames, lines \in CallContents :
          calls' = [calls EXCEPT ![c] =
                       [phase |-> "running", filename |-> name, content |-> lines, i |-> 0,
                        parser |-> NamedParser(name), interleaved |-> FALSE]]
    /\ buffers' = [buffers EXCEPT ![BufferOf(c)] = <<>>]
    /\ UNCHANGED <<parserVars, extractVars, resolverVars, pc,
                 serverVars, clientVars, studentVars>>

\* one iteration of its loop (route.ts:178-339)
StepCall(c) ==
    /\ Running(c) /\ calls[c].i < Len(calls[c].content)
    /\ LET p == [calls[c].parser EXCEPT !.toolResultBuffer = buffers[BufferOf(c)]]
           q == ProcessLine(p, calls[c].content[calls[c].i + 1])
       IN /\ calls' = [calls EXCEPT ![c].parser = q, ![c].i = @ + 1,
                                    ![c].interleaved =
                                        @ \/ \E d \in DOMAIN calls :
                                                 d # c /\ Running(d) /\ calls[d].i > 0]
          /\ buffers' = [buffers EXCEPT ![BufferOf(c)] = q.toolResultBuffer]
    /\ UNCHANGED <<parserVars, extractVars, resolverVars, pc,
                 serverVars, clientVars, studentVars>>

\* the extractors run and the trajectory is returned (route.ts:341-359)
ReturnCall(c) ==
    /\ Running(c) /\ calls[c].i = Len(calls[c].content)
    /\ calls' = [calls EXCEPT ![c] =
                    [phase |-> "done", filename |-> calls[c].filename,
                     content |-> calls[c].content, interleaved |-> calls[c].interleaved,
                     result |-> Assemble(calls[c].parser, calls[c].filename,
                                         calls[c].content)]]
    /\ UNCHANGED <<parserVars, extractVars, resolverVars, pc, buffers,
                 serverVars, clientVars, studentVars>>

NextCalls == \E c \in 1..MaxCalls : BeginCall(c) \/ StepCall(c) \/ ReturnCall(c)
SpecCalls == InitCalls /\ [][NextCalls]_vars

Done(c) == calls[c].phase = "done"

\* C10: two invocations with the same filename and content return the same
\* trajectory, and a returned trajectory is the one its arguments alone
\* determine, whatever invocations ran before it or between its steps
C10_Deterministic ==
    /\ \A c, d \in DOMAIN calls :
          (Done(c) /\ Done(d) /\ calls[c].filename = calls[d].filename
              /\ calls[c].content = calls[d].content)
             => calls[c].result = calls[d].result
    /\ \A c \in DOMAIN calls :
          Done(c) => calls[c].result = parseLogFile(calls[c].filename, calls[c].content)

\* C10 witness: two invocations of the same arguments whose steps were interleaved
\* returned the same trajectory, with a collected tool result
C10_Witness ==
    /\ Done(1) /\ Done(2) /\ calls[1].interleaved /\ calls[2].interleaved
    /\ calls[1].filename = calls[2].filename /\ calls[1].content = calls[2].content
    /\ calls[1].result = calls[2].result
    /\ Len(calls[1].result.steps) = 1 /\ calls[1].result.steps[1].toolResult = <<LPlain>>

(***************************************************************************)
(* Specification SpecFallback: one filename made of a letter word, a       *)
(* digit, a blank, a dot, an extension and a separator, resolved by both   *)
(* resolvers.                                                              *)
(***************************************************************************)
MaxFallbackLen == 3

FallbackTokens == {"a", "1", " ", ".", "log", "_"}
FallbackNames == UNION {[1..m -> FallbackTokens] : m \in 1..MaxFallbackLen}

InitFallback ==
    /\ IdleParser /\ IdleExtract /\ IdleCalls
    /\ IdleServer /\ IdleClient /\ IdleStudents
    /\ pc = "name" /\ filename \in FallbackNames
    /\ resolved = NoResolved

SpecFallback == InitFallback /\ [][NextResolver]_vars

\* the filename holds no known model and no '-' or '_'
NoModelNoSeparator(name) ==
    \A k \in 1..Len(name) :
        name[k] \notin Separators /\ name[k] \notin {KnownModels[n] : n \in 1..Len(KnownModels)}

\* C11 as stated: for a filename with no known-model substring and no '-' or '_'
\* the display resolver yields the model 'Unknown' and a non-empty task.
C11_UnknownFallback ==
    (resolved.shown /\ NoModelNoSeparator(filename))
        => (resolved.model = <<"Unknown">> /\ resolved.task # <<>>)

(***************************************************************************)
(* Specification SpecDiff: contents with one embedded 'agent_diff' value   *)
(* made of words, backslashes, the letters n and t, and quotes that each   *)
(* follow a backslash; seen keeps the value.                               *)
(***************************************************************************)
MaxValueLen == 3

ValueTokens == {"line1", Backslash, "n", "t", Quote}
Values ==
    {v \in UNION {[1..m -> ValueTokens] : m \in 0..MaxValueLen} :
        \A k \in 1..Len(v) : v[k] = Quote => (k > 1 /\ v[k - 1] = Backslash)}
Embedded(v) == <<"{", AgentKey, " ", Quote>> \o v \o <<Quote, "}">>

InitDiff ==
    /\ parser = InitParser /\ nLines = 0 /\ rawLine = <<>> /\ IdleCalls
    /\ IdleServer /\ IdleClient /\ IdleStudents
    /\ pc = "file" /\ trajectory = NoTrajectory /\ filename = LogName /\ resolved = NoResolved
    /\ \E v \in Values :
          /\ seen = v
          /\ content \in {<<Embedded(v)>>, <<LPlain, Embedded(v)>>}
SpecDiff == InitDiff /\ [][GetTrajectory]_vars

\* the value with each \n escape replaced by a new line, each \t escape by a tab
\* and each escaped quote by a quote
RECURSIVE EscapesReplaced(_)
EscapesReplaced(v) ==
    IF Len(v) < 2 THEN v
    ELSE IF v[1] = Backslash /\ v[2] \in {"n", "t", Quote}
    THEN <<CASE v[2] = "n" -> NL [] v[2] = "t" -> TAB [] OTHER -> Quote>>
            \o EscapesReplaced(From(v, 3))
    ELSE <<v[1]>> \o EscapesReplaced(Tail(v))

\* C12 as stated: agentDiff is the embedded value with its \n and \t escapes
\* replaced, and diffStats.agentLines is the number of newline-separated lines of
\* agentDiff.
C12_DiffRoundTrip ==
    trajectory.served
        => /\ trajectory.finalDiffs.agentDiff = EscapesReplaced(seen)
           /\ trajectory.finalDiffs.diffStats.agentLines
                 = LineCount(trajectory.finalDiffs.agentDiff)

(***************************************************************************)
(* Specification SpecScenario: the end-to-end scenario.  A dated start     *)
(* line, an iteration-1 block and an iteration-2 block with one tool call  *)
(* each, one of them failed and followed by result lines, and a closing    *)
(* summary of 2/2 tests.                                                   *)
(***************************************************************************)
MaxResultLines == 3

LStartDated == <<"DATE", " ", H, "Starting benchmark run">>
\* lines of a tool result: none of them matches rules 1-5
ResultLines == {LPlain, LError, LBlank, Summary(<<"1">>, <<"2">>)}
ResultRuns == UNION {[1..m -> ResultLines] : m \in 2..MaxResultLines}
\* the result of the other block: none, a success, a failure
OtherResults == {<<>>, <<LResultTrue>>, <<LResultFalse>>}

Block(iterLine, result) == <<iterLine, LTool>> \o result
Scenario(start, failed, run, other) ==
    <<start>>
       \o Block(LIter1, IF failed = 1 THEN <<LResultFalse>> \o run ELSE other)
       \o Block(LIter2, IF failed = 2 THEN <<LResultFalse>> \o run ELSE other)
       \o <<Summary(<<"2">>, <<"2">>)>>
Scenarios ==
    {Scenario(start, failed, run, other) :
        start \in {LStart, LStartDated}, failed \in {1, 2},
        run \in ResultRuns, other \in OtherResults}

InitScenario == FileInit(Scenarios, {LogName})
SpecScenario == InitScenario /\ [][GetTrajectory]_vars

\* C13: the trajectory of the scenario has totalIterations = 2, toolCalls = 2,
\* errors >= 1 and finalSuccess = true.
C13_Scenario ==
    trajectory.served
        => /\ trajectory.totalIterations = 2 /\ trajectory.toolCalls = 2
           /\ trajectory.errors >= 1 /\ trajectory.finalSuccess

\* C13 witness: the first block failed and collected three result lines, one of
\* them a partial summary; the closing summary still decides the outcome
C13_Witness ==
    /\ trajectory.served /\ Len(trajectory.steps) = 3
    /\ trajectory.steps[1].type = "start" /\ trajectory.steps[1].timestamp = <<"DATE">>
    /\ trajectory.steps[2].success = "false"
    /\ trajectory.steps[2].toolResult = <<LPlain, Summary(<<"1">>, <<"2">>), LError>>
    /\ trajectory.errors = 1 /\ trajectory.finalSuccess

(***************************************************************************)
(* parsePassFailFromLogText (page.tsx:559-590): true, false or null.       *)
(***************************************************************************)
\* Faulty variant: the first occurrence decides
parsePassFailFirst(lines) ==
    LET s == Joined(lines)
        t == Exec("total", s, 1)
        p == Exec("passed", s, 1)
    IN IF s = <<>> THEN "null"
       ELSE IF t.found THEN (IF Verdict(t) THEN "true" ELSE "false")
       ELSE IF p.found THEN (IF Verdict(p) THEN "true" ELSE "false")
       ELSE "null"

parsePassFailFromLogText(lines) ==
    LET s == Joined(lines)
        t == LastMatch("total", s, 1, NoMatch)
        p == LastMatch("passed", s, 1, NoMatch)
    IN IF s = <<>> THEN "null"
       ELSE IF t.found THEN (IF Verdict(t) THEN "true" ELSE "false")
       ELSE IF p.found THEN (IF Verdict(p) THEN "true" ELSE "false")
       ELSE "null"

(***************************************************************************)
(* computeModelPassRates (page.tsx:458-492).  One asynchronous function    *)
(* per listed file fetches the raw log; each settles on its own, in any    *)
(* order, with a text, with a response that is not ok, or with a rejected  *)
(* fetch; when all have settled the results are counted per model.         *)
(***************************************************************************)
Null == [settled |-> TRUE, null |-> TRUE]
Pending == [settled |-> FALSE]
NoCounts == <<>>

\* the value of one mapped function whose fetch returned text (page.tsx:466-468)
OnFetchText(agg, i, text) ==
    [agg EXCEPT !.results[i] =
        [settled |-> TRUE, null |-> FALSE, filename |-> agg.logsData[i],
         finalSuccess |-> parsePassFailFromLogText(text) = "true"]]

\* if (!res.ok) return null (page.tsx:465)
OnFetchNotOk(agg, i) == [agg EXCEPT !.results[i] = Null]

\* Faulty variant: the rejection is not caught and rejects Promise.all
OnFetchThrowRejects(agg, i) == [agg EXCEPT !.at = "rejected"]

\* catch { return null } (page.tsx:469-471)
OnFetchThrow(agg, i) == [agg EXCEPT !.results[i] = Null]

\* Faulty variant: a later result of a model replaces the bucket of the model
RECURSIVE TallyReplaces(_, _)
TallyReplaces(results, counts) ==
    IF results = <<>> THEN counts
    ELSE LET r == Head(results)
         IN IF r.null THEN TallyReplaces(Tail(results), counts)
            ELSE LET m == parseTrajectoryFilename(r.filename).model
                     b == [pass |-> IF r.finalSuccess THEN 1 ELSE 0,
                           fail |-> IF r.finalSuccess THEN 0 ELSE 1, total |-> 1]
                 IN TallyReplaces(Tail(results),
                                  [k \in DOMAIN counts \cup {m} |->
                                      IF k = m THEN b ELSE counts[k]])

\* the loop over the results (page.tsx:476-489)
RECURSIVE Tally(_, _)
Tally(results, counts) ==
    IF results = <<>> THEN counts
    ELSE LET r == Head(results)
         IN IF r.null THEN Tally(Tail(results), counts)
            ELSE LET m == parseTrajectoryFilename(r.filename).model
                     c == IF m \in DOMAIN counts THEN counts
                          ELSE counts @@ (m :> [pass |-> 0, fail |-> 0, total |-> 0])
                 IN Tally(Tail(results),
                          [c EXCEPT ![m] =
                              [pass |-> @.pass + (IF r.finalSuccess THEN 1 ELSE 0),
                               fail |-> @.fail + (IF r.finalSuccess THEN 0 ELSE 1),
                               total |-> @.total + 1]])

(***************************************************************************)
(* Specification SpecAggregate: a listing of distinct filenames; seen      *)
(* keeps how each fetch ended.                                             *)
(***************************************************************************)
MaxLogs == 3

PassNames ==
    {LogName, <<"gpt-5", "_", "b", ".", "log">>, <<"a", "_", "b", ".", "log">>,
     <<"1", ".", "log">>}
PassTexts == {<<Summary(<<"2">>, <<"2">>)>>, <<Summary(<<"1">>, <<"2">>)>>, <<LPlain>>, <<>>}
Listings ==
    {l \in UNION {[1..m -> PassNames] : m \in 1..MaxLogs} :
        \A i, j \in 1..Len(l) : i # j => l[i] # l[j]}

InitAggregate ==
    /\ parser = InitParser /\ nLines = 0 /\ rawLine = <<>> /\ IdleCalls
    /\ IdleExtract /\ IdleResolver /\ IdleServer /\ IdleStudents
    /\ pc = "aggregate" /\ page = NoPage
    /\ \E l \in Listings :
          /\ aggregate = [at |-> "fetching", logsData |-> l,
                          results |-> [i \in 1..Len(l) |-> Pending], counts |-> NoCounts]
          /\ seen = [i \in 1..Len(l) |-> "pending"]

aggregateFrame ==
    <<parser, nLines, rawLine, pc, extractVars, resolverVars, callVars, serverVars,
      page, studentVars>>

Fetching(i) ==
    /\ pc = "aggregate" /\ aggregate.at = "fetching"
    /\ i \in 1..Len(aggregate.logsData) /\ ~aggregate.results[i].settled

\* a fetch returns the text of the file
FetchText(i) ==
    /\ Fetching(i)
    /\ \E text \in PassTexts :
          /\ aggregate' = OnFetchText(aggregate, i, text)
          /\ seen' = [seen EXCEPT ![i] = parsePassFailFromLogText(text)]
    /\ UNCHANGED aggregateFrame

\* a fetch returns a response that is not ok
FetchNotOk(i) ==
    /\ Fetching(i)
    /\ aggregate' = OnFetchNotOk(aggregate, i)
    /\ seen' = [seen EXCEPT ![i] = "notOk"]
    /\ UNCHANGED aggregateFrame

\* fetch, or res.text(), rejects
FetchThrows(i) ==
    /\ Fetching(i)
    /\ aggregate' = OnFetchThrow(aggregate, i)
    /\ seen' = [seen EXCEPT ![i] = "threw"]
    /\ UNCHANGED aggregateFrame

\* Promise.all has resolved: the results are counted and stored
CountResults ==
    /\ pc = "aggregate" /\ aggregate.at = "fetching"
    /\ \A i \in 1..Len(aggregate.logsData) : aggregate.results[i].settled
    /\ aggregate' = [aggregate EXCEPT !.at = "done",
                                      !.counts = Tally(aggregate.results, NoCounts)]
    /\ UNCHANGED <<seen, aggregateFrame>>

NextAggregate ==
    \/ \E i \in 1..MaxLogs : FetchText(i)
    \/ \E i \in 1..MaxLogs : FetchNotOk(i)
    \/ \E i \in 1..MaxLogs : FetchThrows(i)
    \/ CountResults
SpecAggregate == InitAggregate /\ [][NextAggregate]_vars

\* the files of a model whose fetch ended in one of the given ways
FilesOf(m, ends) ==
    {i \in 1..Len(aggregate.logsData) :
        seen[i] \in ends /\ parseTrajectoryFilename(aggregate.logsData[i]).model = m}
Fetched == {"true", "false", "null"}
Failed == {"notOk", "threw"}

\* C14: the aggregate is never rejected; once counted, a model has a bucket exactly
\* when a file of it was fetched, and the bucket counts the fetched files only:
\* total all of them, pass those with verdict true, fail the others.
C14_FailedFetchSkipped ==
    /\ aggregate.at # "rejected"
    /\ aggregate.at = "done" =>
          /\ DOMAIN aggregate.counts
                = {parseTrajectoryFilename(aggregate.logsData[i]).model :
                      i \in {j \in 1..Len(aggregate.logsData) : seen[j] \in Fetched}}
          /\ \A m \in DOMAIN aggregate.counts :
                /\ aggregate.counts[m].total = Cardinality(FilesOf(m, Fetched))
                /\ aggregate.counts[m].pass = Cardinality(FilesOf(m, {"true"}))
                /\ aggregate.counts[m].fail = Cardinality(FilesOf(m, {"false", "null"}))

\* C14 witness: of three files of the model GPT-5 and A, one fetch was rejected,
\* one returned a response that is not ok, and the third is counted as a pass
C14_Witness ==
    /\ aggregate.at = "done"
    /\ aggregate.logsData = <<LogName, <<"gpt-5", "_", "b", ".", "log">>,
                              <<"a", "_", "b", ".", "log">>>>
    /\ seen = <<"threw", "true", "notOk">>
    /\ aggregate.counts = (<<"GPT-5">> :> [pass |-> 1, fail |-> 0, total |-> 1])

(***************************************************************************)
(* The file routes: GET /api/sweagent/logs/[filename] (route.ts:80-110)    *)
(* and GET /api/sweagent/raw-logs/[filename] (raw-logs route.ts:5-39).     *)
(* logsDir maps a name to its entry; the handler awaits fs.access and then *)
(* fs.readFile, and other processes change the directory in between.       *)
(***************************************************************************)
NoEntry == [exists |-> FALSE, content |-> <<>>]
Exists(dir, name) == name \in DOMAIN dir /\ dir[name].exists

NotFound(name) == [status |-> 404, error |-> <<"File", name, "not found">>]
Failure(message) == [status |-> 500, error |-> message]
Ok(body) == [status |-> 200, body |-> body]

\* await fs.access(filePath), and the 404 of its catch (route.ts:91-98)
OnAccess(req, dir) ==
    IF Exists(dir, req.filename)
    THEN [request |-> [req EXCEPT !.at = "checked"], response |-> NoResponse]
    ELSE [request |-> [req EXCEPT !.at = "done", !.missing = TRUE],
          response |-> NotFound(req.filename)]

\* await fs.readFile(filePath), the response, and the outer catch
\* (route.ts:100-108, raw-logs route.ts:25-38)
OnReadFile(req, dir) ==
    IF ~Exists(dir, req.filename)
    THEN [request |-> [req EXCEPT !.at = "done", !.missing = TRUE],
          response |-> Failure(<<"ENOENT">>)]
    ELSE [request |-> [req EXCEPT !.at = "done"],
          response |-> Ok(IF req.route = "raw" THEN dir[req.filename].content
                          ELSE parseLogFile(req.filename, dir[req.filename].content))]

(***************************************************************************)
(* Specification SpecRequest: one request for a file of a small directory, *)
(* while files are removed and written.                                    *)
(***************************************************************************)
MaxFiles == 2

FileNames == <<LogName, <<"a", ".", "log">>, <<"a", "_", "b", ".", "log">>>>
FileContents == {<<LPlain>>, <<LIter1, LTool>>, <<Summary(<<"2">>, <<"2">>)>>}
DirNames(n) == {FileNames[k] : k \in 1..Min(n, Len(FileNames))}
Entries == {NoEntry} \cup {[exists |-> TRUE, content |-> c] : c \in FileContents}

InitRequest ==
    /\ IdleParser /\ IdleCalls /\ IdleExtract /\ IdleResolver /\ IdleClient /\ IdleStudents
    /\ pc = "request"
    /\ logsDir \in [DirNames(MaxFiles) -> Entries]
    /\ \E name \in DirNames(MaxFiles), route \in {"trajectory", "raw"} :
          request = [at |-> "start", route |-> route, filename |-> name, missing |-> FALSE]
    /\ response = NoResponse

requestFrame ==
    <<parserVars, pc, extractVars, resolverVars, callVars, clientVars, studentVars>>

Access ==
    /\ pc = "request" /\ request.at = "start"
    /\ request' = OnAccess(request, logsDir).request
    /\ response' = OnAccess(request, logsDir).response
    /\ UNCHANGED <<logsDir, requestFrame>>

ReadFile ==
    /\ pc = "request" /\ request.at = "checked"
    /\ request' = OnReadFile(request, logsDir).request
    /\ response' = OnReadFile(request, logsDir).response
    /\ UNCHANGED <<logsDir, requestFrame>>

\* another process removes a file
RemoveFile ==
    /\ pc = "request" /\ request.at # "done"
    /\ \E name \in DOMAIN logsDir :
          /\ logsDir[name].exists
          /\ logsDir' = [logsDir EXCEPT ![name] = NoEntry]
    /\ UNCHANGED <<request, response, requestFrame>>

\* another process writes a file
WriteFile ==
    /\ pc = "request" /\ request.at # "done"
    /\ \E name \in DOMAIN logsDir, c \in FileContents :
          /\ ~logsDir[name].exists
          /\ logsDir' = [logsDir EXCEPT ![name] = [exists |-> TRUE, content |-> c]]
    /\ UNCHANGED <<request, response, requestFrame>>

NextRequest == Access \/ ReadFile \/ RemoveFile \/ WriteFile
SpecRequest == InitRequest /\ [][NextRequest]_vars

\* C15 as stated: a request that found its file absent, at the existence check or
\* at the read, is answered with status 404.
C15_NotFound == (request.at = "done" /\ request.missing) => response.status = 404

(***************************************************************************)
(* The listing route: GET /api/sweagent/logs (route.ts:5-30).  readdir     *)
(* gives the names, the names ending in ".log" are kept, and one fs.stat   *)
(* per kept name runs concurrently under Promise.all.                      *)
(***************************************************************************)
\* file.endsWith(".log")
EndsWithLog(name) == Len(name) >= 2 /\ name[Len(name) - 1] = "." /\ name[Len(name)] = "log"

\* stats.size: the length of the text
SizeOf(lines) == Len(Joined(lines))

\* the names of the directory, in the order of the sequence all
RECURSIVE NamesIn(_, _)
NamesIn(dir, all) ==
    IF all = <<>> THEN <<>>
    ELSE IF Exists(dir, Head(all)) THEN <<Head(all)>> \o NamesIn(dir, Tail(all))
    ELSE NamesIn(dir, Tail(all))

RECURSIVE Filter(_)
Filter(files) ==
    IF files = <<>> THEN <<>>
    ELSE IF EndsWithLog(Head(files)) THEN <<Head(files)>> \o Filter(Tail(files))
    ELSE Filter(Tail(files))

NoStat == [settled |-> FALSE]

\* files = await fs.readdir(logsDir); files.filter(...).map(async ...)
\* (route.ts:9-19): every stat is started
OnReaddir(req, dir, all) ==
    [req EXCEPT !.at = "stating", !.files = Filter(NamesIn(dir, all)),
                !.logFiles = [i \in 1..Len(Filter(NamesIn(dir, all))) |-> NoStat]]

\* Faulty variant: a stat that fails leaves its entry out of the list
OnStatSkips(req, dir, i) ==
    IF Exists(dir, req.files[i])
    THEN [request |-> [req EXCEPT !.logFiles[i] =
                         [settled |-> TRUE, kept |-> TRUE, filename |-> req.files[i],
                          size |-> SizeOf(dir[req.files[i]].content)]],
          response |-> NoResponse]
    ELSE [request |-> [req EXCEPT !.logFiles[i] = [settled |-> TRUE, kept |-> FALSE]],
          response |-> NoResponse]

\* one stat settles (route.ts:14-18); a rejection rejects Promise.all and is
\* answered by the catch (route.ts:23-29)
OnStat(req, dir, i) ==
    IF Exists(dir, req.files[i])
    THEN [request |-> [req EXCEPT !.logFiles[i] =
                         [settled |-> TRUE, kept |-> TRUE, filename |-> req.files[i],
                          size |-> SizeOf(dir[req.files[i]].content)]],
          response |-> NoResponse]
    ELSE [request |-> [req EXCEPT !.at = "done"], response |-> Failure(<<"ENOENT">>)]

\* the list of the entries that were kept
RECURSIVE Kept(_)
Kept(logFiles) ==
    IF logFiles = <<>> THEN <<>>
    ELSE IF Head(logFiles).kept
    THEN <<[filename |-> Head(logFiles).filename, size |-> Head(logFiles).size]>>
            \o Kept(Tail(logFiles))
    ELSE Kept(Tail(logFiles))

(***************************************************************************)
(* Specification SpecListing: one listing request over a small directory,  *)
(* while files are removed and written; seen keeps the names that readdir  *)
(* returned and whether a call failed.                                     *)
(***************************************************************************)
MaxEntries == 3

ListNames == <<LogName, <<"a", ".", "txt">>, <<".", "log">>, <<"log">>>>
ListContents == {<<LPlain>>, <<LIter1, LTool>>}
ListDirNames == {ListNames[k] : k \in 1..Min(MaxEntries, Len(ListNames))}
ListEntries == {NoEntry} \cup {[exists |-> TRUE, content |-> c] : c \in ListContents}

InitListing ==
    /\ parser = InitParser /\ nLines = 0 /\ rawLine = <<>>
    /\ IdleCalls /\ IdleExtract /\ IdleResolver /\ IdleClient /\ IdleStudents
    /\ pc = "listing"
    /\ logsDir \in [ListDirNames -> ListEntries]
    /\ request = [at |-> "list", files |-> <<>>, logFiles |-> <<>>]
    /\ response = NoResponse
    /\ seen = [listed |-> {}, failed |-> FALSE]

listingFrame ==
    <<parser, nLines, rawLine, pc, extractVars, resolverVars, callVars, clientVars,
      studentVars>>

Readdir ==
    /\ pc = "listing" /\ request.at = "list"
    /\ request' = OnReaddir(request, logsDir, ListNames)
    /\ seen' = [seen EXCEPT !.listed = {n \in DOMAIN logsDir : logsDir[n].exists}]
    /\ UNCHANGED <<logsDir, response, listingFrame>>

\* the directory cannot be read
ReaddirFails ==
    /\ pc = "listing" /\ request.at = "list"
    /\ request' = [request EXCEPT !.at = "done"]
    /\ response' = Failure(<<"EACCES">>)
    /\ seen' = [seen EXCEPT !.failed = TRUE]
    /\ UNCHANGED <<logsDir, listingFrame>>

Stat(i) ==
    /\ pc = "listing" /\ request.at = "stating"
    /\ i \in 1..Len(request.files) /\ ~request.logFiles[i].settled
    /\ request' = OnStat(request, logsDir, i).request
    /\ response' = OnStat(request, logsDir, i).response
    /\ seen' = [seen EXCEPT !.failed = @ \/ ~Exists(logsDir, request.files[i])]
    /\ UNCHANGED <<logsDir, listingFrame>>

\* Promise.all has resolved: NextResponse.json(logFiles) (route.ts:22)
Respond ==
    /\ pc = "listing" /\ request.at = "stating"
    /\ \A i \in 1..Len(request.files) : request.logFiles[i].settled
    /\ request' = [request EXCEPT !.at = "done"]
    /\ response' = Ok(Kept(request.logFiles))
    /\ UNCHANGED <<logsDir, seen, listingFrame>>

\* another process removes or writes a file
ChangeDir ==
    /\ pc = "listing" /\ request.at # "done"
    /\ \E name \in DOMAIN logsDir, entry \in ListEntries :
          /\ logsDir[name].exists # entry.exists
          /\ logsDir' = [logsDir EXCEPT ![name] = entry]
    /\ UNCHANGED <<request, response, seen, listingFrame>>

NextListing ==
    \/ Readdir \/ ReaddirFails \/ (\E i \in 1..MaxEntries : Stat(i)) \/ Respond \/ ChangeDir
SpecListing == InitListing /\ [][NextListing]_vars

\* C16: a finished listing is either the list with exactly one entry, with a size,
\* for each name that readdir returned and that ends in ".log", and none for any
\* other name, when no call failed; or, when readdir or a stat failed, an error
\* with a message and status 500 that carries no list.
C16_Listing ==
    request.at = "done" =>
        IF seen.failed
        THEN /\ response.status = 500 /\ response.error # <<>>
             /\ "body" \notin DOMAIN response
        ELSE /\ response.status = 200
             /\ \A k \in 1..Len(response.body) :
                   /\ response.body[k].filename \in seen.listed
                   /\ response.body[k].size \in {SizeOf(c) : c \in ListContents}
             /\ \A name \in seen.listed :
                   Cardinality({k \in 1..Len(response.body) :
                                   response.body[k].filename = name})
                      = (IF EndsWithLog(name) THEN 1 ELSE 0)

\* C16 witness: two ".log" names were read, one was removed before its stat, and
\* the answer is the error
C16_Witness ==
    /\ request.at = "done" /\ Len(request.files) = 2
    /\ request.logFiles[1].settled /\ ~request.logFiles[2].settled
    /\ response.status = 500

\* C16 second case reached: a list of two entries next to a name that is not a log
C16_Listed ==
    /\ request.at = "done" /\ response.status = 200 /\ Len(response.body) = 2
    /\ <<"a", ".", "txt">> \in seen.listed

(***************************************************************************)
(* Specification SpecNormalize: normalizeLine applied to a trimmed line    *)
(* and again to its result; content keeps the successive results.          *)
(***************************************************************************)
MaxGlyphLine == 5

GlyphLineTokens == {"u23F1", "uD83D", " ", "x"}
GlyphLines ==
    {l \in UNION {[1..m -> GlyphLineTokens] : m \in 1..MaxGlyphLine} : Trim(l) = l}

InitNormalize ==
    /\ parser = InitParser /\ nLines = 0 /\ seen = NoHistory
    /\ IdleCalls /\ IdleResolver /\ IdleServer /\ IdleClient /\ IdleStudents
    /\ pc = "normalize" /\ rawLine \in GlyphLines
    /\ content = <<>> /\ trajectory = NoTrajectory

\* normalizeLine(x), then normalizeLine of the result
Normalize ==
    /\ pc = "normalize" /\ Len(content) < 2
    /\ content' = Append(content, normalizeLine(IF content = <<>> THEN rawLine
                                                ELSE content[Len(content)]))
    /\ UNCHANGED <<parser, nLines, rawLine, seen, pc, trajectory, resolverVars, callVars,
                   serverVars, clientVars, studentVars>>

SpecNormalize == InitNormalize /\ [][Normalize]_vars

\* C17 as stated: for every trimmed line, normalizing the normalized line gives
\* the normalized line.
C17_Idempotent == Len(content) = 2 => content[2] = content[1]

(***************************************************************************)
(* calculateGPA (studentController.js:26-48).  A quotient is kept as the   *)
(* pair of its dividend and divisor; two quotients are equal when their    *)
(* cross products are.                                                     *)
(***************************************************************************)
Quotient(a, b) == [num |-> a, den |-> b]
SameNumber(q, r) == q.num * r.den = r.num * q.den

\* the body of the handler for the student found (studentController.js:35-44)
GpaOf(student, totalGradePoints) ==
    IF student.coursesTaken > 0 THEN Quotient(totalGradePoints, student.coursesTaken)
    ELSE Quotient(0, 1)

(***************************************************************************)
(* Specification SpecStudents: one stored student and one request.         *)
(***************************************************************************)
MaxCredits == 4

InitStudents ==
    /\ IdleParser /\ IdleCalls /\ IdleExtract /\ IdleResolver /\ IdleClient
    /\ pc = "students" /\ logsDir = <<>>
    /\ \E credits \in 0..MaxCredits, courses \in 0..MaxCredits :
          students = [id \in {1} |-> [creditsCompleted |-> credits, coursesTaken |-> courses,
                                      gpa |-> Quotient(0, 1)]]
    /\ \E id \in {1, 2}, points \in 0..(2 * MaxCredits) :
          request = [at |-> "start", id |-> id, totalGradePoints |-> points]
    /\ response = NoResponse

studentsFrame ==
    <<parserVars, pc, extractVars, resolverVars, callVars, logsDir, clientVars>>

\* POST /api/students/:id/calculate-gpa for a stored student
CalculateGPA ==
    /\ pc = "students" /\ request.at = "start" /\ request.id \in DOMAIN students
    /\ students' = [students EXCEPT ![request.id].gpa =
                       GpaOf(students[request.id], request.totalGradePoints)]
    /\ response' = [status |-> 200,
                    gpa |-> GpaOf(students[request.id], request.totalGradePoints)]
    /\ request' = [request EXCEPT !.at = "done"]
    /\ UNCHANGED studentsFrame

\* the same request for an id that is not stored
StudentNotFound ==
    /\ pc = "students" /\ request.at = "start" /\ request.id \notin DOMAIN students
    /\ response' = [status |-> 404, error |-> <<"Student not found">>]
    /\ request' = [request EXCEPT !.at = "done"]
    /\ UNCHANGED <<students, studentsFrame>>

NextStudents == CalculateGPA \/ StudentNotFound
SpecStudents == InitStudents /\ [][NextStudents]_vars

\* C18 as stated: for a stored student with creditsCompleted > 0 the handler sets
\* and returns gpa = totalGradePoints / creditsCompleted, whatever coursesTaken is.
C18_GpaByCredits ==
    (request.at = "done" /\ request.id \in DOMAIN students
        /\ students[request.id].creditsCompleted > 0)
        => LET expected == Quotient(request.totalGradePoints,
                                    students[request.id].creditsCompleted)
           IN /\ SameNumber(students[request.id].gpa, expected)
              /\ SameNumber(response.gpa, expected)

(***************************************************************************)
(* The result branch and the collection branch (route.ts:319-332), over    *)
(* the lines of specification Spec.                                        *)
(***************************************************************************)
\* the success a result line states: the word after its first
\* 'Tool 0 result success: '
StatedSuccess(line) == IF ResultIsSuccess(line) THEN "true" ELSE "false"

\* the toolResult of every step present before the line stays as it was
ToolResultsKept ==
    \A k \in DOMAIN parser.steps : parser'.steps[k].toolResult = parser.steps[k].toolResult

\* the line just consumed is at the end of the buffer and of the current step's
\* toolResult, which are equal
Collected ==
    /\ parser'.toolResultBuffer = Append(parser.toolResultBuffer, LineNow)
    /\ parser'.steps[parser.currentStep].toolResult = parser'.toolResultBuffer
    /\ parser'.collectingToolResult /\ parser'.currentStep = parser.currentStep

\* the line just consumed has set the current step's success and has started an
\* empty collection, without being added to a toolResult
ResultStarted ==
    /\ parser'.steps[parser.currentStep].success = StatedSuccess(LineNow)
    /\ parser'.collectingToolResult /\ parser'.toolResultBuffer = <<>>
    /\ ToolResultsKept

MaxCollectLines == 5

LGrading == Summary(<<"2">>, <<"2">>)
CollectLines ==
    {LBlank, LIter1, LTool, LEditTarget, LResultTrue, LResultFalse, LError, LPlain,
     LGrading}

InitCollect ==
    /\ IdleParser /\ pc = "collect" /\ IdleExtract /\ IdleResolver /\ IdleCalls
    /\ IdleServer /\ IdleClient /\ IdleStudents

\* the loop body consumes the next line
CollectStep ==
    /\ pc = "collect" /\ nLines < MaxCollectLines
    /\ \E l \in CollectLines : Consume(l)

SpecCollect == InitCollect /\ [][CollectStep]_vars

\* rule 6 matches the line
MatchesRule6(p, line) == Includes(line, PResult) /\ p.currentStep # 0
Collecting == parser.collectingToolResult /\ parser.currentStep # 0

HasToolCall(line) == Includes(line, PToolCall) /\ ToolCallHits(line) # {}

ReachesFallback(p, line) ==
    /\ ~MatchesRule1to5(p, line)
    /\ ~(p.collectingToolResult /\ p.currentStep # 0 /\ line # <<>>)
    /\ ~MatchesRule6(p, line)

\* C22: a line containing 'ERROR' in any case that no earlier rule matches, consumed
\* while a current step exists, sets the step's error to the line and adds 1 to
\* errors if the step has no error, and changes neither otherwise; no line
\* replaces an error that is set.
C22_ErrorFallback ==
    [][LineStep =>
         /\ \A k \in DOMAIN parser.steps :
               parser.steps[k].error # <<>> => parser'.steps[k].error = parser.steps[k].error
         /\ (IncludesError(LineNow) /\ ReachesFallback(parser, LineNow) /\ parser.currentStep # 0)
               => IF parser.steps[parser.currentStep].error = <<>>
                  THEN /\ parser'.steps[parser.currentStep].error = <<LineNow>>
                       /\ parser'.errors = parser.errors + 1
                  ELSE /\ parser'.errors = parser.errors
                       /\ parser'.steps = parser.steps]_vars

\* C22 witness: a second ERROR line has left the error of the first in place
C22_Witness ==
    /\ nLines = 4 /\ rawLine = LErrorLower /\ parser.errors = 1
    /\ Len(parser.steps) = 1 /\ parser.currentStep = 1
    /\ parser.steps[1].error = <<normalizeLine(Trim(LError))>>
    /\ ~parser.collectingToolResult

(***************************************************************************)
(* One branch per line (route.ts:178-339), over the lines of Spec.         *)
(***************************************************************************)
\* C23: a consumed line appends at most one step and keeps the steps before it in
\* place, adds at most 1 to toolCalls and at most 1 to errors; a line that is empty
\* after trimming leaves every part of the parser state as it was.
C23_OneRulePerLine ==
    [][LineStep =>
         /\ Len(parser'.steps) \in {Len(parser.steps), Len(parser.steps) + 1}
         /\ parser'.toolCalls \in {parser.toolCalls, parser.toolCalls + 1}
         /\ parser'.errors \in {parser.errors, parser.errors + 1}
         /\ (Len(parser'.steps) = Len(parser.steps) + 1
                => parser'.errors = parser.errors)
         /\ (Trim(rawLine') = <<>> => parser' = parser)]_vars

\* C23 witness: a line with both the failed result and ERROR counted one error, and
\* the blank line after it changed nothing
C23_Witness ==
    /\ nLines = 4 /\ rawLine = LBlank
    /\ parser.errors = 1 /\ parser.toolCalls = 1 /\ Len(parser.steps) = 1
    /\ parser.steps[1].success = "false" /\ parser.steps[1].error = <<>>
    /\ parser.collectingToolResult /\ parser.toolResultBuffer = <<>>

(***************************************************************************)
(* Lines with the phrases of rule 3 or rule 4 whose regular expression     *)
(* captures nothing (route.ts:207-236), over the lines of Spec.            *)
(***************************************************************************)
\* the iteration phrases without a number, or the tool-call phrase without a name
Malformed(line) ==
    \/ Includes(line, PIteration) /\ Includes(line, PLLM) /\ IterationMatch(line) = 0
    \/ Includes(line, PToolCall) /\ ToolCallHits(line) = {}

PassedOccurrences(lines) ==
    {k \in 1..Len(Joined(lines)) : PassedAt(Joined(lines), k).found}
LastPassed(lines) == PassedAt(Joined(lines), GreatestOf(PassedOccurrences(lines)))

\* C25: without any 'Total tests: X/Y passed' in the content, finalSuccess is true
\* exactly when the last 'Passed X/Y tests' has X = Y and Y > 0, and false when
\* that pattern does not occur either; with a 'Total tests' occurrence the last
\* one of those decides, whatever 'Passed X/Y tests' says before or after it.
C25_OutcomeFallback ==
    pc = "served" =>
        IF Occurrences(content) # {}
        THEN trajectory.finalSuccess
                 <=> /\ LastOccurrence(content).passed = LastOccurrence(content).total
                     /\ LastOccurrence(content).total > 0
        ELSE IF PassedOccurrences(content) # {}
        THEN trajectory.finalSuccess
                 <=> /\ LastPassed(content).passed = LastPassed(content).total
                     /\ LastPassed(content).total > 0
        ELSE trajectory.finalSuccess = FALSE

\* C25 witness: no 'Total tests', and the last of two 'Passed X/Y tests' decides
C25_Witness ==
    /\ pc = "served" /\ Occurrences(content) = {}
    /\ Cardinality(PassedOccurrences(content)) = 2
    /\ PassedAt(Joined(content), LeastOf(PassedOccurrences(content))).passed = 1
    /\ LastPassed(content).passed = 2 /\ LastPassed(content).total = 2
    /\ trajectory.finalSuccess = TRUE

\* a 'Passed 2/2 tests' after the last 'Total tests: 1/2 passed' is ignored
C25_PassedIgnored ==
    /\ pc = "served" /\ Occurrences(content) # {} /\ PassedOccurrences(content) # {}
    /\ GreatestOf(PassedOccurrences(content)) > GreatestOf(Occurrences(content))
    /\ LastOccurrence(content).passed # LastOccurrence(content).total
    /\ LastPassed(content).passed = LastPassed(content).total
    /\ trajectory.finalSuccess = FALSE

(***************************************************************************)
(* Specification SpecScan: the loop of parseTestResults, one iteration per *)
(* step, over contents of standalone tokens, fragments and terminators.    *)
(* nLines is the number of lines the loop has passed, trajectory holds the *)
(* results pushed so far and seen the iterations made: the line each one   *)
(* started at, the last line its result was read from, and what it pushed. *)
(***************************************************************************)
MaxScanLines == 5

LTestLine == <<"pass", " ", "a.py", ":", ":", "t", ":", " ", "PASSED">>
ScanLines ==
    {<<"pass">>, <<"fail">>, <<" ", "PASSED">>, <<" ">>,
     <<"a.py", ":", ":", "t">>, <<"a.py", ":", ":", "t", ":", " ", "PASSED">>, LTestLine}

InitScan ==
    /\ parser = InitParser /\ rawLine = <<>> /\ nLines = 0 /\ seen = <<>>
    /\ pc = "scan" /\ content \in ContentsOf(ScanLines, MaxScanLines)
    /\ trajectory = [testResults |-> <<>>]
    /\ IdleResolver /\ IdleCalls /\ IdleServer /\ IdleClient /\ IdleStudents

\* one iteration of the for loop
ScanNext ==
    /\ pc = "scan" /\ nLines < Len(content)
    /\ LET s == ScanLine(content, nLines + 1)
       IN /\ trajectory' = [testResults |-> trajectory.testResults \o s.push]
          /\ nLines' = s.next - 1
          /\ seen' = Append(seen, [from |-> nLines + 1, last |-> s.last, pushed |-> s.push])
    /\ UNCHANGED <<parser, rawLine, content, pc>>
    /\ UNCHANGED <<resolverVars, callVars, serverVars, clientVars, studentVars>>

\* the loop ends and the results are returned
ScanDone ==
    /\ pc = "scan" /\ nLines >= Len(content)
    /\ pc' = "scanned"
    /\ UNCHANGED <<parserVars, extractVars>>
    /\ UNCHANGED <<resolverVars, callVars, serverVars, clientVars, studentVars>>

NextScan == ScanNext \/ ScanDone
SpecScan == InitScan /\ [][NextScan]_vars

\* the loop computes what parseTestResults returns
ScanIsParse == pc = "scanned" => trajectory.testResults = parseTestResults(content)

\* a standalone 'pass' / 'fail' line, and a terminator line
BareToken(l) == Trim(l) \in {<<"pass">>, <<"fail">>}
Terminates(l) ==
    \/ Includes(Trim(l), <<":", " ", "PASSED">>) \/ Includes(Trim(l), <<":", " ", "FAILED">>)
    \/ Trim(l) \in {<<"PASSED">>, <<"FAILED">>}
Window(i) == (i + 1)..Min(i + 3, Len(content))

\* C26: an iteration that starts at a standalone 'pass' / 'fail' line i pushes a
\* result only if one of the lines i+1..i+3 is a terminator and the lines up to
\* it hold '::'; if a standalone token comes in those lines before any terminator,
\* the iteration pushes nothing, and a later iteration starts at that token.
C26_LookAhead ==
    \A n \in DOMAIN seen :
        LET i == seen[n].from
        IN BareToken(content[i]) =>
              /\ seen[n].pushed # <<>> =>
                    \E j \in Window(i) :
                        /\ Terminates(content[j])
                        /\ \E m \in (i + 1)..j : Includes(content[m], <<":", ":">>)
              /\ \A k \in Window(i) :
                    (BareToken(content[k]) /\ \A m \in (i + 1)..(k - 1) : ~Terminates(content[m]))
                        => /\ seen[n].pushed = <<>>
                           /\ Len(seen) > n => seen[n + 1].from = i + 1
                           /\ pc = "scanned" => \E n2 \in DOMAIN seen : seen[n2].from = k

\* C26 witness: the scan is over; the token of line 1 pushed nothing because of the
\* token of line 3, which pushed the result of the fragment and terminator after it
C26_Witness ==
    /\ pc = "scanned" /\ Len(content) = 5
    /\ BareToken(content[1]) /\ Includes(content[2], <<":", ":">>) /\ ~Terminates(content[2])
    /\ content[3] = <<"pass">> /\ content[4] = <<"a.py", ":", ":", "t">>
    /\ content[5] = <<" ", "PASSED">>
    /\ seen[1].pushed = <<>>
    /\ \E n \in DOMAIN seen : seen[n].from = 3 /\ seen[n].last = 5 /\ seen[n].pushed # <<>>
    /\ Len(trajectory.testResults) = 1

\* the number of lines that hold an outcome word
OutcomeLineCount ==
    Cardinality({k \in DOMAIN content :
                    \E t \in DOMAIN content[k] : content[k][t] \in {"PASSED", "FAILED"}})
\* the results pushed by the iterations so far, in their order
RECURSIVE PushedIn(_)
PushedIn(h) == IF h = <<>> THEN <<>> ELSE Head(h).pushed \o PushedIn(Tail(h))

\* C27: an iteration that pushes a result read from several lines is followed by
\* one that starts at the line after the last of them, so the iterations that
\* push read disjoint runs of lines and the results are no more than the lines
\* with an outcome word; testResults holds the results in the order of the lines
\* they start at, and n copies of one test line give n equal results.
C27_NoDoubleCounting ==
    /\ \A n \in DOMAIN seen :
          /\ seen[n].from <= seen[n].last
          /\ (seen[n].pushed # <<>> /\ Len(seen) > n) => seen[n + 1].from = seen[n].last + 1
          /\ Len(seen) > n => seen[n + 1].from > seen[n].from
    /\ trajectory.testResults = PushedIn(seen)
    /\ Len(trajectory.testResults) <= OutcomeLineCount
    /\ (pc = "scanned" /\ \A k \in DOMAIN content : content[k] = LTestLine)
          => /\ Len(trajectory.testResults) = Len(content)
             /\ \A r \in DOMAIN trajectory.testResults :
                   trajectory.testResults[r] = TestResult(<<"a.py">>, <<"t">>, "pass")

\* C27 witness: a record read from lines 1..3, then two copies of one test line,
\* three results in that order
C27_Witness ==
    /\ pc = "scanned" /\ Len(content) = 5
    /\ content[1] = <<"pass">> /\ content[3] = <<" ", "PASSED">>
    /\ content[4] = LTestLine /\ content[5] = LTestLine
    /\ Len(seen) = 3 /\ seen[1].last = 3 /\ seen[2].from = 4 /\ seen[3].from = 5
    /\ Len(trajectory.testResults) = 3
    /\ trajectory.testResults[2] = trajectory.testResults[3]

(***************************************************************************)
(* Specification SpecKnown: filenames that hold known model names, also    *)
(* several of them and in an order other than that of the list.            *)
(***************************************************************************)
MaxKnownLen == 4

KnownTokens ==
    {"gpt-5", "claude-sonnet-4-5-20250929", "gemini_gemini-2.5-pro", "_", "a", ".", "log"}

InitKnown ==
    /\ IdleParser /\ IdleExtract /\ IdleCalls
    /\ IdleServer /\ IdleClient /\ IdleStudents
    /\ pc = "name" /\ filename \in UNION {[1..m -> KnownTokens] : m \in 1..MaxKnownLen}
    /\ resolved = [shown |-> FALSE, keyed |-> FALSE]

SpecKnown == InitKnown /\ [][NextResolver]_vars

\* the list entries that occur in the filename, by their place in the list
KnownIn(name) == {n \in DOMAIN KnownModels : \E k \in DOMAIN name : name[k] = KnownModels[n]}
\* the text after the first occurrence of entry n
AfterFirst(name, n) == From(name, LeastOf({k \in DOMAIN name : name[k] = KnownModels[n]}) + 1)

\* C28: for a filename in which entries of the known-model list occur, both
\* resolvers use the entry that comes first in the list: the model is its display
\* name, and the task and the task id are the cleaned text after its first
\* occurrence, as if no fallback pattern existed.
C28_KnownPrecedence ==
    KnownIn(filename) # {} =>
        LET n == LeastOf(KnownIn(filename))
            taskRaw == AfterFirst(filename, n)
        IN /\ resolved.shown
                 => /\ resolved.model = Display(KnownModels[n])
                    /\ resolved.task = formatTaskIdToTitle(CleanTask(taskRaw, filename))
           /\ resolved.keyed => resolved.taskId = CleanTask(taskRaw, filename)

\* C28 witness: 'gpt-5' comes first in the filename and the Claude entry first in
\* the list; both resolvers took the Claude entry
C28_Witness ==
    /\ filename = <<"gpt-5", "_", "claude-sonnet-4-5-20250929", "a">>
    /\ resolved.shown /\ resolved.keyed
    /\ resolved.model = <<"Claude Sonnet 4.5">>
    /\ resolved.task = <<"A">> /\ resolved.taskId = <<"a">>

(***************************************************************************)
(* Specification SpecDiffs: contents with an 'agent_diff' value, a         *)
(* 'golden_diff' value, both or neither; a value is made of words,         *)
(* backslashes, the letter n and quotes that each follow a backslash.      *)
(* seen keeps the two values, NoDiff for a key that is not in the content. *)
(***************************************************************************)
MaxDiffLen == 2

DiffTokens == {"line1", Backslash, "n", Quote}
DiffValues ==
    {v \in UNION {[1..m -> DiffTokens] : m \in 0..MaxDiffLen} :
        \A k \in 1..Len(v) : v[k] = Quote => (k > 1 /\ v[k - 1] = Backslash)}
Entry(key, v) == IF v = NoDiff THEN <<>> ELSE <<key, " ", Quote>> \o v \o <<Quote, ",", " ">>

InitDiffs ==
    /\ parser = InitParser /\ nLines = 0 /\ rawLine = <<>> /\ IdleCalls
    /\ IdleServer /\ IdleClient /\ IdleStudents
    /\ pc = "file" /\ trajectory = NoTrajectory /\ filename = LogName /\ resolved = NoResolved
    /\ \E a \in DiffValues \cup {NoDiff}, g \in DiffValues \cup {NoDiff} :
          /\ seen = [agent |-> a, golden |-> g]
          /\ content = <<LPlain, <<"{">> \o Entry(AgentKey, a) \o Entry(GoldenKey, g) \o <<"}">>>>
SpecDiffs == InitDiffs /\ [][GetTrajectory]_vars

\* the value holds an escaped quote
HasEscapedQuote(v) == \E k \in 1..Len(v) : v[k] = Quote

\* C29 as stated: a value with escaped quotes is extracted whole, up to its closing
\* quote, with a plain quote in the place of each escaped one.
C29_EscapedQuotes ==
    trajectory.served
        => /\ HasEscapedQuote(seen.agent)
                 => trajectory.finalDiffs.agentDiff = EscapesReplaced(seen.agent)
           /\ HasEscapedQuote(seen.golden)
                 => trajectory.finalDiffs.goldenDiff = EscapesReplaced(seen.golden)

\* what the extraction gives for such a value: the text before the first escaped
\* quote, the backslash of the escape included
C29_CutAtEscape ==
    /\ trajectory.served /\ seen.agent = <<Backslash, Quote>>
    /\ trajectory.finalDiffs.agentDiff = <<Backslash>>
    /\ trajectory.finalDiffs.diffStats.agentLines = 1

\* d.split("\n").length, by the parts of the split
SplitLength(d) == Len(Split(d, <<NL>>))

MaxDiffLines == 6

HeaderLines == {<<"--- a/", "f">>, <<"--- a/", "g">>, <<"+++ b/", "f">>, <<"x">>}

\* the lines joined by the escape \n
RECURSIVE Escaped(_)
Escaped(lines) ==
    IF lines = <<>> THEN <<>>
    ELSE IF Len(lines) = 1 THEN lines[1]
    ELSE lines[1] \o <<Backslash, "n">> \o Escaped(Tail(lines))

InitFiles ==
    /\ parser = InitParser /\ nLines = 0 /\ rawLine = <<>> /\ IdleCalls
    /\ IdleServer /\ IdleClient /\ IdleStudents
    /\ pc = "file" /\ trajectory = NoTrajectory /\ filename = LogName /\ resolved = NoResolved
    /\ \/ \E d \in ContentsOf(HeaderLines, MaxDiffLines) :
             /\ seen = d
             /\ content = <<LPlain, <<"{">> \o Entry(AgentKey, Escaped(d)) \o <<"}">>>>
       \/ \E d \in ContentsOf(HeaderLines, 2) :
             /\ seen = NoDiff
             /\ content = <<LPlain, <<"{">> \o Entry(GoldenKey, Escaped(d)) \o <<"}">>>>
SpecFiles == InitFiles /\ [][GetTrajectory]_vars

\* the lines k of the diff with '--- a/p' whose next line starts with '+++ b/'
HeaderAt(d) ==
    {k \in 1..(Len(d) - 1) : d[k][1] = "--- a/" /\ d[k + 1][1] = "+++ b/"}
PathAt(d, k) == Tail(d[k])
FirstAt(d, p) == LeastOf({k \in HeaderAt(d) : PathAt(d, k) = p})

\* C31: filesChanged holds exactly the paths p of the lines '--- a/p' of the agent
\* diff whose next line starts with '+++ b/', each once, in the order of their
\* first occurrence; agentFilesChanged is its length; without an agent diff it is
\* empty.
C31_FilesChanged ==
    trajectory.served =>
        LET fc == trajectory.finalDiffs.filesChanged
            d == IF seen = NoDiff THEN <<>> ELSE seen
        IN /\ {fc[a] : a \in DOMAIN fc} = {PathAt(d, k) : k \in HeaderAt(d)}
           /\ \A a, b \in DOMAIN fc : a < b => FirstAt(d, fc[a]) < FirstAt(d, fc[b])
           /\ trajectory.finalDiffs.diffStats.agentFilesChanged = Len(fc)
           /\ seen = NoDiff => fc = <<>>

\* C31 witness: the headers of f, g and f again give f, g
C31_Witness ==
    /\ trajectory.served /\ seen # NoDiff /\ Len(seen) = 6
    /\ HeaderAt(seen) = {1, 3, 5}
    /\ PathAt(seen, 1) = <<"f">> /\ PathAt(seen, 3) = <<"g">> /\ PathAt(seen, 5) = <<"f">>
    /\ trajectory.finalDiffs.filesChanged = <<<<"f">>, <<"g">>>>
    /\ trajectory.finalDiffs.diffStats.agentFilesChanged = 2

(***************************************************************************)
(* Specification SpecMetrics: parseLabTrainingMetrics over a file that is  *)
(* given one line at a time.  pc is "seek" before the marker, "section"    *)
(* in the inner loop, "rest" for the lines after the end of the loop,      *)
(* which are never read, and "parsed" after the return.  nLines is the     *)
(* number of lines after the marker that were given.  seen keeps the       *)
(* number of lines from the marker to the end of the file, whether a       *)
(* '-- Details --' line was given, and the keys of the fields given before *)
(* it on the first 20 and on the first 19 lines after the marker.          *)
(***************************************************************************)
MaxMetricLines == 21

LTestsPassed == <<"Tests Passed:", " ", "True">>
LAgentSuccess == <<" ", "Agent Success:", " ", "False">>
LLength == <<"Conversation Length:", " ", "2", "1">>
LLengthBad == <<"Conversation Length:">>
LDetails == <<Details>>
LMarker == <<" ", Marker>>
MetricLines == {LTestsPassed, LAgentSuccess, LLength, LLengthBad, LDetails, LMarker, LPlain}

\* the key of the labeled field on a line, "" when the line holds none
FieldKey(l) ==
    CASE l = LTestsPassed -> "testsPassed"
      [] l = LAgentSuccess -> "agentSuccess"
      [] l = LLength -> "conversationLength"
      [] OTHER -> ""
\* the 20 of 'j < Math.min(i + 20, lines.length)' (route.ts:528)
StatedWindow == 20
\* the largest j - i the loop reaches
ScannedWindow == StatedWindow - 1

NoSection == [len |-> 0, details |-> FALSE, stated |-> {}, scanned |-> {}]

InitMetrics ==
    /\ parser = InitParser /\ rawLine = <<>> /\ nLines = 0 /\ seen = NoSection
    /\ pc = "seek" /\ content = <<>> /\ trajectory = [metrics |-> NoMetrics]
    /\ IdleResolver /\ IdleCalls /\ IdleServer /\ IdleClient /\ IdleStudents

metricsFrame ==
    /\ UNCHANGED <<parser, content>>
    /\ UNCHANGED <<resolverVars, callVars, serverVars, clientVars, studentVars>>

\* seen after the line l at offset o from the marker
Noted(l, o) ==
    LET field == ~seen.details /\ FieldKey(l) # ""
    IN [seen EXCEPT !.details = @ \/ l = LDetails,
                    !.stated = IF field /\ o <= StatedWindow THEN @ \cup {FieldKey(l)} ELSE @,
                    !.scanned = IF field /\ o <= ScannedWindow THEN @ \cup {FieldKey(l)} ELSE @]

\* the outer loop passes a line without the marker (route.ts:522-526)
SeekLine ==
    /\ pc = "seek"
    /\ \E l \in MetricLines \ {LMarker} : rawLine' = l
    /\ UNCHANGED <<nLines, seen, pc, trajectory>> /\ metricsFrame

\* the outer loop finds the marker, with len - 1 lines after it in the file
MarkerLine ==
    /\ pc = "seek" /\ rawLine' = LMarker /\ pc' = "section"
    /\ \E len \in 1..(MaxMetricLines + 1) : seen' = [seen EXCEPT !.len = len]
    /\ UNCHANGED <<nLines, trajectory>> /\ metricsFrame

\* one iteration of the inner loop (route.ts:528-550); the marker has index 0 and
\* the line read has index nLines + 1
SectionLine ==
    /\ pc = "section" /\ nLines + 1 < SectionEnd(0, seen.len)
    /\ \E l \in MetricLines :
          /\ rawLine' = l /\ nLines' = nLines + 1 /\ seen' = Noted(l, nLines + 1)
          /\ IF FirstLabel(Trim(l)) = "" /\ Includes(Trim(l), <<Details>>)
             THEN pc' = "rest" /\ UNCHANGED trajectory
             ELSE /\ pc' = pc
                  /\ trajectory' = [metrics |-> OnMetricLine(trajectory.metrics, Trim(l))]
    /\ metricsFrame

\* the inner loop ends at its bound, and the outer loop with it (route.ts:528, 551)
SectionOver ==
    /\ pc = "section" /\ ~(nLines + 1 < SectionEnd(0, seen.len))
    /\ pc' = "rest"
    /\ UNCHANGED <<nLines, rawLine, seen, trajectory>> /\ metricsFrame

\* a line of the file after the end of the loops: it is not read
RestLine ==
    /\ pc = "rest" /\ nLines + 1 < seen.len
    /\ \E l \in MetricLines :
          rawLine' = l /\ nLines' = nLines + 1 /\ seen' = Noted(l, nLines + 1)
    /\ UNCHANGED <<pc, trajectory>> /\ metricsFrame

\* the return (route.ts:556): the object, or undefined when it has no key
ReturnMetrics ==
    /\ \/ pc = "seek"
       \/ pc = "rest" /\ ~(nLines + 1 < seen.len)
    /\ pc' = "parsed"
    /\ trajectory' = [defined |-> trajectory.metrics # NoMetrics,
                      metrics |-> trajectory.metrics]
    /\ UNCHANGED <<nLines, rawLine, seen>> /\ metricsFrame

NextMetrics ==
    SeekLine \/ MarkerLine \/ SectionLine \/ SectionOver \/ RestLine \/ ReturnMetrics
SpecMetrics == InitMetrics /\ [][NextMetrics]_vars

\* the keys the returned object holds
KeysOf(metrics) == {k \in MetricKeys : metrics[k] # <<>>}

\* C32 as stated: the result holds exactly the fields given before a '-- Details --'
\* line on the 20 lines after the marker, and is absent without a marker.
C32_TwentyLines ==
    pc = "parsed" =>
        /\ KeysOf(trajectory.metrics) = seen.stated
        /\ seen.len = 0 => ~trajectory.defined

\* C32 amended: the result holds exactly the fields given before a '-- Details --'
\* line on the 19 lines after the marker (i+1 .. i+19); it is absent when there is
\* no marker or no such field.
C32_NineteenLines ==
    pc = "parsed" =>
        /\ KeysOf(trajectory.metrics) = seen.scanned
        /\ trajectory.defined <=> seen.scanned # {}
        /\ seen.len = 0 => ~trajectory.defined

\* C32 witness: a field on line i+19 is in the result, fields on line i+20 and
\* after a '-- Details --' line are not
C32_Witness ==
    /\ pc = "parsed" /\ seen.len = MaxMetricLines + 1 /\ nLines = MaxMetricLines
    /\ seen.scanned = {"testsPassed"} /\ seen.stated = {"testsPassed", "agentSuccess"}
    /\ ~seen.details
    /\ trajectory.defined /\ trajectory.metrics.testsPassed = <<"true">>
    /\ trajectory.metrics.agentSuccess = <<>>
    /\ trajectory.metrics.conversationLength = <<>>

(***************************************************************************)
(* Counters and steps after any sequence of lines, in Spec.                *)
(***************************************************************************)
FailedSteps(p) == {k \in DOMAIN p.steps : p.steps[k].success = "false"}
ErrorSteps(p) == {k \in DOMAIN p.steps : p.steps[k].error # <<>>}

\* C33: after any sequence of lines, errors is the number of steps whose success
\* is false plus the number of steps whose error is set, and at most twice
\* toolCalls; ERROR lines that went into a tool-result buffer are in neither
\* number.
C33_ErrorAccounting ==
    /\ parser.errors = Cardinality(FailedSteps(parser)) + Cardinality(ErrorSteps(parser))
    /\ parser.errors <= 2 * parser.toolCalls

\* C33 witness: an ERROR line was collected into the result of a failed step and
\* errors is 1
C33_Witness ==
    /\ nLines = 4 /\ rawLine = LError /\ parser.errors = 1 /\ parser.toolCalls = 1
    /\ parser.steps[1].success = "false" /\ parser.steps[1].error = <<>>
    /\ parser.steps[1].toolResult = <<normalizeLine(Trim(LError))>>


\* the steps of type iteration
IterationSteps(p) == {k \in DOMAIN p.steps : p.steps[k].type = "iteration"}

StartsStep == HasToolCall(LineNow) /\ Len(parser'.steps) = Len(parser.steps) + 1

\* C35 as stated: in the collecting state only a tool-call line that starts a step
\* ends the collection, and every other line that matches none of rules 1-5 is
\* added to the current step's toolResult.
C35_EveryLineCollected ==
    [][(LineStep /\ Collecting) =>
          IF StartsStep THEN ~parser'.collectingToolResult
          ELSE /\ parser'.collectingToolResult /\ parser'.currentStep = parser.currentStep
               /\ ~MatchesRule1to5(parser, LineNow) => Collected]_vars

\* C35 amended: in the collecting state only a tool-call line that starts a step
\* ends the collection; every other line that is not empty after trimming and
\* matches none of rules 1-5 is added, trimmed and normalized, to the current
\* step's toolResult, and a line that is empty after trimming is added nowhere.
C35_NonEmptyCollected ==
    [][(LineStep /\ Collecting) =>
          IF StartsStep THEN ~parser'.collectingToolResult
          ELSE /\ parser'.collectingToolResult /\ parser'.currentStep = parser.currentStep
               /\ (LineNow # <<>> /\ ~MatchesRule1to5(parser, LineNow)) => Collected
               /\ LineNow = <<>> => parser' = parser]_vars

\* C35 witness: the grading line after the result line is in the toolResult of the
\* last step, the blank line after it is not
C35_Witness ==
    /\ nLines = 5 /\ rawLine = LBlank /\ Collecting
    /\ parser.currentStep = Len(parser.steps)
    /\ parser.steps[parser.currentStep].toolResult = <<LGrading>>
    /\ parser.toolResultBuffer = <<LGrading>>


\* C36: a step's success, once it is true or false, is the same after every later
\* line, also after further 'Tool 0 result success' lines.
C36_SuccessOnce ==
    [][LineStep =>
          \A k \in DOMAIN parser.steps :
              parser.steps[k].success # "null"
                  => parser'.steps[k].success = parser.steps[k].success]_vars

\* C36 witness: a step with success true has taken a later 'Tool 0 result success:
\* False' line into its toolResult and is still true
C36_Witness ==
    /\ nLines = 4 /\ rawLine = LResultFalse /\ parser.currentStep = 1
    /\ parser.steps[1].success = "true"
    /\ parser.steps[1].toolResult = <<normalizeLine(Trim(LResultFalse))>>
    /\ parser.errors = 0


(***************************************************************************)
(* Specification SpecVerdicts: one log text, parsed by the server for the  *)
(* trajectory (determineFinalSuccess) and fetched raw by the page for the  *)
(* pass rates (parsePassFailFromLogText), in either order.                 *)
(***************************************************************************)
MaxVerdictLines == 2

VerdictContents == ContentsOf(OutcomeLines \cup {LPlain, <<>>}, MaxVerdictLines)

InitVerdicts ==
    /\ IdleParser /\ IdleCalls /\ IdleServer /\ IdleStudents
    /\ pc = "file" /\ content \in VerdictContents /\ trajectory = NoTrajectory
    /\ filename = LogName /\ resolved = NoResolved /\ page = NoPage
    /\ aggregate = [at |-> "fetching", logsData |-> <<LogName>>,
                    results |-> <<Pending>>, counts |-> NoCounts]

\* the fetch of the raw log returns the text of the file
FetchRaw ==
    /\ aggregate.at = "fetching" /\ ~aggregate.results[1].settled
    /\ aggregate' = OnFetchText(aggregate, 1, content)
    /\ UNCHANGED aggregateFrame /\ UNCHANGED seen

\* Promise.all has resolved: the result is counted
CountRaw ==
    /\ aggregate.at = "fetching" /\ aggregate.results[1].settled
    /\ aggregate' = [aggregate EXCEPT !.at = "done",
                                      !.counts = Tally(aggregate.results, NoCounts)]
    /\ UNCHANGED aggregateFrame /\ UNCHANGED seen

NextVerdicts == GetTrajectory \/ FetchRaw \/ CountRaw
SpecVerdicts == InitVerdicts /\ [][NextVerdicts]_vars

\* C37: for every log text the finalSuccess of the server's trajectory is the
\* finalSuccess the page derives from its verdict (verdict === true); a text
\* without an outcome line, verdict null, is not a success for the server and
\* counts as one fail in the bucket of its model.
C37_ExtractorsAgree ==
    /\ (trajectory.served /\ aggregate.results[1].settled)
          => trajectory.finalSuccess = aggregate.results[1].finalSuccess
    /\ aggregate.results[1].settled
          => aggregate.results[1].finalSuccess = (parsePassFailFromLogText(content) = "true")
    /\ (aggregate.at = "done" /\ parsePassFailFromLogText(content) = "null")
          => /\ aggregate.counts = (<<"GPT-5">> :> [pass |-> 0, fail |-> 1, total |-> 1])
             /\ trajectory.served => ~trajectory.finalSuccess

\* C37 witness: a text without an outcome line, served and counted as a fail
C37_Witness ==
    /\ trajectory.served /\ aggregate.at = "done" /\ content = <<LPlain, <<>>>>
    /\ ~trajectory.finalSuccess /\ ~aggregate.results[1].finalSuccess
    /\ aggregate.counts[<<"GPT-5">>].fail = 1

\* a text whose last 'Total tests' line differs from its first, a success in both
C37_BothPass ==
    /\ trajectory.served /\ aggregate.at = "done"
    /\ content = <<Summary(<<"1">>, <<"2">>), Summary(<<"2">>, <<"2">>)>>
    /\ trajectory.finalSuccess /\ aggregate.counts[<<"GPT-5">>].pass = 1


\* the sum of the totals of the buckets of the given models
RECURSIVE SumTotals(_, _)
SumTotals(counts, models) ==
    IF models = {} THEN 0
    ELSE LET m == CHOOSE k \in models : TRUE
         IN counts[m].total + SumTotals(counts, models \ {m})

\* the results that follow from how each fetch ended, whatever the order
ResultsOf(ends) ==
    [i \in 1..Len(aggregate.logsData) |->
        IF ends[i] \in Fetched
        THEN [settled |-> TRUE, null |-> FALSE, filename |-> aggregate.logsData[i],
              finalSuccess |-> ends[i] = "true"]
        ELSE Null]

\* C38: once computeModelPassRates has counted, every bucket has pass + fail = total,
\* the totals add up to the number of files whose fetch succeeded, and the results
\* and counts are those that follow from how each fetch ended, in whatever order
\* the fetches completed.
C38_AggregateCounts ==
    aggregate.at = "done" =>
        /\ \A m \in DOMAIN aggregate.counts :
              aggregate.counts[m].pass + aggregate.counts[m].fail = aggregate.counts[m].total
        /\ SumTotals(aggregate.counts, DOMAIN aggregate.counts)
              = Cardinality({i \in 1..Len(aggregate.logsData) : seen[i] \in Fetched})
        /\ aggregate.results = ResultsOf(seen)
        /\ aggregate.counts = Tally(ResultsOf(seen), NoCounts)

\* C38 witness: three files of two models, all fetched, two of them of one model
C38_Witness ==
    /\ aggregate.at = "done"
    /\ aggregate.logsData = <<LogName, <<"a", "_", "b", ".", "log">>,
                              <<"gpt-5", "_", "b", ".", "log">>>>
    /\ seen = <<"true", "false", "null">>
    /\ Cardinality(DOMAIN aggregate.counts) = 2
    /\ aggregate.counts[<<"GPT-5">>] = [pass |-> 1, fail |-> 1, total |-> 2]


(***************************************************************************)
(* The trajectory cache of the page (page.tsx:422-424, 641-723).  The      *)
(* state trajectories and expandedFiles is replaced by setState; a call of *)
(* ensureTrajectory or toggleTrajectory reads the values of the render     *)
(* that created it, also after its await.  A fetch in flight keeps these   *)
(* values: closure (trajectories) and newExpanded.                         *)
(***************************************************************************)
MaxFetches == 3

\* const newTrajectories = new Map(trajectories); newTrajectories.set(filename, ...)
\* (page.tsx:684-685 and 655-656): the map of the call's render plus the entry
WithEntry(closure, name) == closure \cup {name}

StartFetch(pg, kind, name, newExpanded) ==
    [pg EXCEPT !.fetches = Append(@, [kind |-> kind, filename |-> name, at |-> "fetching",
                                      closure |-> pg.trajectories,
                                      newExpanded |-> newExpanded])]

\* ensureTrajectory up to its await (page.tsx:678-681)
ensureTrajectory(pg, name) ==
    IF name \in pg.trajectories THEN pg ELSE StartFetch(pg, "ensure", name, {})

\* toggleTrajectory up to its await, or to its end when it does not fetch
\* (page.tsx:641-651, 664)
toggleTrajectory(pg, name) ==
    IF name \in pg.expandedFiles
    THEN [pg EXCEPT !.expandedFiles = @ \ {name}]
    ELSE IF name \in pg.trajectories
    THEN [pg EXCEPT !.expandedFiles = @ \cup {name}]
    ELSE StartFetch(pg, "toggle", name, pg.expandedFiles \cup {name})

\* the rest of either function after a response that is ok
\* (page.tsx:683-686; 653-657, 664)
OnTrajectory(pg, k) ==
    LET f == pg.fetches[k]
    IN [pg EXCEPT !.fetches[k].at = "ok",
                  !.trajectories = WithEntry(f.closure, f.filename),
                  !.expandedFiles = IF f.kind = "toggle" THEN f.newExpanded ELSE @]

\* the rest of either function after a response that is not ok or a rejection
\* (page.tsx:682, 687-689; 652, 658-660, 664)
OnNoTrajectory(pg, k) ==
    LET f == pg.fetches[k]
    IN [pg EXCEPT !.fetches[k].at = "failed",
                  !.expandedFiles = IF f.kind = "toggle" THEN f.newExpanded ELSE @]

\* the effect on [logs] (page.tsx:692-723) for logs of which every task has one
\* file: the file is the selected one of its task, and ensureTrajectory is called
\* for each in the order of the listing, all in the render of the effect
RECURSIVE SelectEach(_, _, _)
SelectEach(pg, render, names) ==
    IF names = <<>> THEN pg
    ELSE SelectEach(IF Head(names) \in render.trajectories THEN pg
                    ELSE [pg EXCEPT !.fetches =
                              Append(@, [kind |-> "ensure", filename |-> Head(names),
                                         at |-> "fetching",
                                         closure |-> render.trajectories,
                                         newExpanded |-> {}])],
                    render, Tail(names))

(***************************************************************************)
(* Specification SpecCache: a listing of files of distinct tasks; the      *)
(* effect selects, the user clicks, and the fetches end in any order.      *)
(***************************************************************************)
CacheNames ==
    {LogName, <<"gpt-5", "_", "b", ".", "log">>, <<"a", "_", "c", ".", "log">>}
CacheListings ==
    {l \in UNION {[1..m -> CacheNames] : m \in 1..MaxFetches} :
        \A i, j \in 1..Len(l) :
            i # j => getTaskIdFromFilename(l[i]) # getTaskIdFromFilename(l[j])}

InitCache ==
    /\ IdleParser /\ IdleCalls /\ IdleExtract /\ IdleResolver /\ IdleServer /\ IdleStudents
    /\ pc = "page" /\ aggregate = NoAggregate
    /\ \E l \in CacheListings :
          page = [at |-> "mounted", logs |-> l, trajectories |-> {},
                  expandedFiles |-> {}, fetches |-> <<>>]

cacheFrame ==
    <<parserVars, pc, extractVars, resolverVars, callVars, serverVars, aggregate,
      studentVars>>

\* the effect runs once the logs are loaded
SelectInitial ==
    /\ pc = "page" /\ page.at = "mounted"
    /\ page' = [SelectEach(page, page, page.logs) EXCEPT !.at = "selected"]
    /\ UNCHANGED cacheFrame

\* a click on a task header or a model button
EnsureClick(name) ==
    /\ pc = "page" /\ page.at = "selected"
    /\ Len(page.fetches) < MaxFetches
    /\ page' = ensureTrajectory(page, name)
    /\ UNCHANGED cacheFrame

\* a click that toggles a file
ToggleClick(name) ==
    /\ pc = "page" /\ page.at = "selected"
    /\ Len(page.fetches) < MaxFetches
    /\ page' = toggleTrajectory(page, name)
    /\ UNCHANGED cacheFrame

TrajectoryArrives(k) ==
    /\ pc = "page" /\ k \in DOMAIN page.fetches /\ page.fetches[k].at = "fetching"
    /\ page' = OnTrajectory(page, k)
    /\ UNCHANGED cacheFrame

TrajectoryFails(k) ==
    /\ pc = "page" /\ k \in DOMAIN page.fetches /\ page.fetches[k].at = "fetching"
    /\ page' = OnNoTrajectory(page, k)
    /\ UNCHANGED cacheFrame

NextCache ==
    \/ SelectInitial
    \/ \E i \in 1..MaxFetches : i \in DOMAIN page.logs /\ EnsureClick(page.logs[i])
    \/ \E i \in 1..MaxFetches : i \in DOMAIN page.logs /\ ToggleClick(page.logs[i])
    \/ \E k \in 1..MaxFetches : TrajectoryArrives(k)
    \/ \E k \in 1..MaxFetches : TrajectoryFails(k)
SpecCache == InitCache /\ [][NextCache]_vars

AllComplete ==
    /\ page.at = "selected"
    /\ \A k \in DOMAIN page.fetches : page.fetches[k].at # "fetching"
Succeeded == {page.fetches[k].filename : k \in {j \in DOMAIN page.fetches : page.fetches[j].at = "ok"}}

\* C39: once every fetch in flight has completed, the cache holds an entry for
\* every filename whose fetch succeeded.
C39_NoEntryLost == AllComplete => Succeeded \subseteq page.trajectories

\* what the code does: a completion stores the entries of its call's render plus
\* its own, so the cache holds the file of the completion that stored last
C39_LastCompletionKept ==
    [][\A k \in 1..MaxFetches :
          TrajectoryArrives(k) =>
              page'.trajectories = page.fetches[k].closure \cup {page.fetches[k].filename}]_vars

\* two fetches started by the effect have both succeeded and one entry is held
C39_EntryLost ==
    /\ AllComplete /\ Len(page.fetches) = 2
    /\ page.logs = <<LogName, <<"gpt-5", "_", "b", ".", "log">>>>
    /\ page.fetches[1].at = "ok" /\ page.fetches[2].at = "ok"
    /\ page.fetches[1].closure = {} /\ page.fetches[2].closure = {}
    /\ page.trajectories = {LogName}

====
